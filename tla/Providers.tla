------------------------------- MODULE Providers -------------------------------
(***************************************************************************)
(* The providers, each beside its registry.  They share no state: each     *)
(* behaviour is of one of them (on), and the variables of the others stay  *)
(* Off, so the states are the sum of the providers' states.                *)
(***************************************************************************)
EXTENDS Naturals

CONSTANTS
  Version, Tag, Bytes, Source, Prerelease,        \* NpmProvider
  Asset, TagSource, MaxOperations,                \* GitHubProvider
  Coordinate, Filename, Spells, File,             \* PyPiProvider
  Namespace, ServerVersion, Runnable, Setup,      \* McpProvider
  MaxForeign                                      \* what others do at each registry

VARIABLES on, registry, operation, world, plan, evidence, work,
  index, uploads, bundle, pages, read, servers, publication, look

Off == "off"

Npm == INSTANCE NpmProvider
GitHub == INSTANCE GitHubProvider
PyPi == INSTANCE PyPiProvider WITH plan <- uploads, work <- pages
Mcp == INSTANCE McpProvider WITH Version <- ServerVersion, Coordinate <- Runnable

ASSUME ProviderAssumptions ==
  /\ Npm!NpmAssumption /\ GitHub!GitHubAssumption /\ PyPi!PyPiAssumption
  /\ Mcp!McpAssumption

npm == <<registry, operation>>
github == <<world, plan, evidence, work>>
pypi == <<index, uploads, bundle, pages, read>>
mcp == <<servers, publication, look>>
vars == <<on, npm, github, pypi, mcp>>

Init ==
  /\ on \in {"npm", "github", "pypi", "mcp"}
  /\ IF on = "npm" THEN Npm!Init ELSE registry = Off /\ operation = Off
  /\ IF on = "github" THEN GitHub!Init
     ELSE world = Off /\ plan = Off /\ evidence = Off /\ work = Off
  /\ IF on = "pypi" THEN PyPi!Init
     ELSE index = Off /\ uploads = Off /\ bundle = Off /\ pages = Off /\ read = Off
  /\ IF on = "mcp" THEN Mcp!Init ELSE servers = Off /\ publication = Off /\ look = Off

Next ==
  \/ on = "npm" /\ Npm!Next /\ UNCHANGED <<on, github, pypi, mcp>>
  \/ on = "github" /\ GitHub!Next /\ UNCHANGED <<on, npm, pypi, mcp>>
  \/ on = "pypi" /\ PyPi!Next /\ UNCHANGED <<on, npm, github, mcp>>
  \/ on = "mcp" /\ Mcp!Next /\ UNCHANGED <<on, npm, github, pypi>>

Spec == Init /\ [][Next]_vars

-----------------------------------------------------------------------------
\* Each provider and its registry hold what they may (the schemas of the intents and the
\* facts, and of what a registry answers).
TypeOK ==
  /\ on = "npm" => Npm!TypeOK
  /\ on = "github" => GitHub!TypeOK
  /\ on = "pypi" => PyPi!TypeOK
  /\ on = "mcp" => Mcp!TypeOK

\* A receipt is of a write that took effect at the registry, a rejection of one that never
\* will (acknowledges and isAuthenticationRejection of npm, decodeResponse of PyPI and MCP).
OutcomesTrue ==
  /\ on = "npm" => Npm!OutcomesTrue
  /\ on = "pypi" => PyPi!OutcomesTrue
  /\ on = "mcp" => Mcp!OutcomesTrue

\* What an observation says of a registry is what its page shows, and a version of npm for
\* good; of GitHub, which is read in several pages, it was so in a state between the first
\* read and the last, whatever others write meanwhile (classifyObservation of each provider).
ObservationsTrue ==
  /\ on = "npm" => Npm!ObservationsTrue
  /\ on = "github" => GitHub!ObservationsTrue
  /\ on = "pypi" => PyPi!ObservationsTrue
  /\ on = "mcp" => Mcp!ObservationsTrue

\* What goes out is whole and of one meaning: npm's provenance is of the very bytes and the
\* run that built them, GitHub's release goes public with every asset of the plan, and files
\* of one PyPI plan take different names and read as what the index was told
\* (createProvenance, validatePlan, uploadIntent).
SentWhole ==
  /\ on = "npm" => Npm!ProvenanceGenuine
  /\ on = "github" => GitHub!DraftPublishedWhole
  /\ on = "pypi" => PyPi!NamesDistinct /\ PyPi!OneReading
=============================================================================
