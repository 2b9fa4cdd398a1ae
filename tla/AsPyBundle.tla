----------------------------- MODULE AsPyBundle -----------------------------
(***************************************************************************)
(* The optional native extension: how it is found and loaded               *)
(* (src/spikingjelly_npu/_native.py) and what a probe concludes from it    *)
(* (src/spikingjelly_npu/routing.py).                                      *)
(*                                                                         *)
(* An installation is what the process finds on disk.  Its fields:         *)
(*   direct     importing the extension from sys.path: "absent" if nothing *)
(*              is found, "loads", or how it raises                        *)
(*   complete   a relocatable bundle has its library and one extension     *)
(*   torch_npu, library, extension   what each loading step of that bundle *)
(*              does: "loads" or the error it raises                       *)
(*   registers  the extension of that bundle, once loaded, is entered in   *)
(*              sys.modules: the interpreter does so for one initialised   *)
(*              in a single phase, as pybind11 did before version 3        *)
(*   module     the extension itself                                       *)
(* An extension has the symbols it can call, and its metadata: "none" for  *)
(* a bundle without version functions, "declared" for well-formed ones,    *)
(* or what is wrong with them; declared gives each declared capability its *)
(* symbols.                                                                *)
(***************************************************************************)
EXTENDS Naturals

CONSTANTS
  Installations,    \* what may be found on disk
  None              \* no installation, no probe

Directions == {"forward", "backward"}

\* _LEGACY_CAPABILITY_SYMBOLS: a capability is a pair of symbols.
Known == {"if", "if_compact", "lif", "lif_compact", "plif", "klif",
          "fedsnn_decay_lif"}
Pair(g) == {<<g, d>> : d \in Directions}

\* A capability of a later release: this package knows no symbols for it.
Later == "later"
Groups == Known \cup {Later}
Symbols == Groups \X Directions

LoadErrors == {"ImportError", "OSError"}
BadMetadata == {"one_sided", "payload", "unsupported_abi", "unsupported_schema"}

ASSUME AsPyBundleAssumption ==
  \A i \in Installations :
    /\ i.direct \in {"absent", "loads", "Exception"} \cup LoadErrors
    /\ {i.complete, i.registers} \subseteq BOOLEAN
    /\ {i.torch_npu, i.library, i.extension} \subseteq {"loads"} \cup LoadErrors
    /\ i.module \in [callable : SUBSET Symbols,
                     metadata : {"none", "declared"} \cup BadMetadata,
                     declared : {i.module.declared}]
    /\ DOMAIN i.module.declared \subseteq Groups
    /\ \A g \in DOMAIN i.module.declared :
         i.module.declared[g] \subseteq Symbols /\ i.module.declared[g] # {}

(***************************************************************************)
(* Loading.  The extension is imported by its name, so that one already in *)
(* sys.modules is returned at once, whatever has been installed since;     *)
(* otherwise a bundle is loaded from its path.                             *)
(*                                                                         *)
(* Below, i is the installation on disk and s the one whose extension is   *)
(* in sys.modules, or None.                                                *)
(***************************************************************************)
MutFound(i, s) == i

\* The installation whose extension a load returns, or fails to.
Found(i, s) == IF s # None THEN s ELSE i

LoadingSteps(i) == <<i.torch_npu, i.library, i.extension>>
FirstFailure(i) ==
  LET failing == {n \in 1 .. 3 : LoadingSteps(i)[n] # "loads"}
  IN  IF failing = {} THEN "none"
      ELSE LoadingSteps(i)[CHOOSE n \in failing : \A k \in failing : n <= k]

\* The error load_aspy_native raises, or "none".
LoadError(i, s) ==
  CASE s # None \/ i.direct = "loads" -> "none"
    [] s = None /\ i.direct = "Exception" -> "OSError"
    [] s = None /\ i.direct \in {"absent"} \cup LoadErrors ->
         IF i.complete THEN FirstFailure(i)
         ELSE IF i.direct = "absent" THEN "ImportError" ELSE "OSError"

\* What is in sys.modules after a load.
Loaded(i, s) ==
  IF s = None /\ LoadError(i, s) = "none" /\ (i.direct = "loads" \/ i.registers)
  THEN i ELSE s

(***************************************************************************)
(* Probing.  available is that there is a group: __post_init__ admits no   *)
(* other combination.                                                      *)
(***************************************************************************)
Capabilities(present, groups, reason) ==
  [present |-> present, groups |-> groups, reason |-> reason]
Available(c) == c.groups # {}
Supports(c, g) == g \in c.groups

Malformed(reason) == Capabilities(TRUE, {}, reason)

Legacy(x) ==
  Capabilities(TRUE, {g \in Known : Pair(g) \subseteq x.callable}, "legacy")

DeclaredSymbols(x) == UNION {x.declared[g] : g \in DOMAIN x.declared}
WellDeclared(x) ==
  /\ DOMAIN x.declared # {}
  /\ \A g \in DOMAIN x.declared \cap Known : x.declared[g] = Pair(g)
Declared(x) ==
  IF WellDeclared(x) /\ DeclaredSymbols(x) \subseteq x.callable
  THEN Capabilities(TRUE, DOMAIN x.declared, "declared")
  ELSE Malformed("malformed")

ProbeLoaded(x) ==
  CASE x.metadata = "none"                     -> Legacy(x)
    [] x.metadata = "declared"                 -> Declared(x)
    [] x.metadata \in {"one_sided", "payload"} -> Malformed("malformed")
    [] x.metadata \in {"unsupported_abi", "unsupported_schema"} ->
         Malformed(x.metadata)

FailedCapabilities(error) ==
  IF error = "ImportError" THEN Capabilities(FALSE, {}, "absent")
  ELSE Malformed("load_error")

Probe(i, s) ==
  IF LoadError(i, s) = "none" THEN ProbeLoaded(Found(i, s).module)
  ELSE FailedCapabilities(LoadError(i, s))

ASSUME NoProbeAssumption ==
  /\ None \notin Installations
  /\ \A i \in Installations : Probe(i, None) # None

(***************************************************************************)
(* What the process knows.                                                 *)
(***************************************************************************)
VARIABLES
  installed,    \* the installation on disk
  imported,     \* the installation whose extension is in sys.modules
  probe,        \* the cached result of get_aspy_capabilities()
  probed        \* the installation it was made from

bundle == <<installed, imported, probe, probed>>

BundleInit ==
  /\ installed \in Installations
  /\ imported = None
  /\ probe = None
  /\ probed = None

\* Another bundle is configured, another extension put on sys.path, or either
\* removed.  Every installation has a path of its own: a library overwritten
\* in place while the process has it mapped is not modelled.
Install ==
  /\ installed' \in Installations \ {installed}
  /\ UNCHANGED <<imported, probe, probed>>

GetCapabilities ==
  /\ IF probe # None THEN UNCHANGED <<imported, probe, probed>>
     ELSE /\ probe' = Probe(installed, imported)
          /\ probed' = Found(installed, imported)
          /\ imported' = Loaded(installed, imported)
  /\ UNCHANGED installed

ClearCapabilityCache ==
  /\ probe' = None
  /\ probed' = None
  /\ UNCHANGED <<installed, imported>>
=============================================================================
