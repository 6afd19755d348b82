SPECIFICATION Spec
CONSTANTS
  Policies <- HidingPolicies
  Listings <- ThreeListings
  Threads <- SomeThreads
  Calendars <- SomeCalendars
INVARIANT ListedIsShown
