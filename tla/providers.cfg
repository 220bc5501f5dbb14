CONSTANTS
  \* npm: a package of two versions, the second a prerelease.
  Version = {"1", "2"}  Tag = {"latest", "next"}  Bytes = {"b1", "b2"}
  Source = {"s1", "s2"}  Prerelease = {"2"}
  \* GitHub: four operations are two assets for a tag that is there, or one for a new tag.
  Asset = {"a", "b"}  TagSource = {"lightweight", "annotated", "existing"}  MaxOperations = 4
  \* PyPI: two names that spell one version of a project, another version they do not spell.
  Coordinate = {"c1", "c2"}  Filename = {"wheel", "sdist"}  Spells <- Spelled
  File = {"f1", "f2"}
  \* MCP: one version of a server in two namespaces.
  Namespace = {"n1", "n2"}  ServerVersion = {"1"}  Runnable = {"p1"}  Setup = {"x", "y"}
  MaxForeign = 1
SPECIFICATION Spec
INVARIANTS
  ProviderInv
  OutcomesTrue
  ObservationsTrue
  SentWhole
\* A plan that is published and observed, or refused, has nothing more to do.
CHECK_DEADLOCK FALSE
