CONSTANTS
  Patterns <- MCPatterns
  Urls <- MCUrls
  MaxRoutes = 3
  LengthRange = 32
SPECIFICATION Spec
INVARIANT AnsweredByItsRoute
PROPERTIES AddIsLocal ImplementsRouter
