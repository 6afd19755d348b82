SPECIFICATION Spec
CONSTANTS
  Policies <- ListedPolicies
  Listings <- ThreeListings
  Threads <- SomeThreads
  Calendars <- SomeCalendars
INVARIANTS
  SearchIsConsistent
  SameVerdict
  NothingForbiddenLeft
  ShownHasListedLabel
  OnlyMaskedCalendarsMiss
