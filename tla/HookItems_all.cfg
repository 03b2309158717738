\* Two of the calls of MC_HookItems in a row, every failure.
SPECIFICATION Spec
CONSTANTS
  None = None
  Decl <- MCDecl
  Super <- MCSuper
  Load <- MCLoad
  Annotation <- MCAnnotation
  Calls <- MCCalls
  MaxCalls = 2
  Late = {"A"}
INVARIANTS TypeOK HandedOver ArgumentsFit
\* The application makes MaxCalls calls and stops.
CHECK_DEADLOCK FALSE
