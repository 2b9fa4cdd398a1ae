--------------------------- MODULE MCNativeRouting ---------------------------
(***************************************************************************)
(* NativeRouting over installations that differ in how they load and in    *)
(* what their extension has: nothing, full-output pairs, a compact forward *)
(* without its backward, every known group, declared metadata that promise *)
(* less than is callable, more than this release knows, or too much, and   *)
(* in whether they stay in sys.modules (NoPlif does, after the import of   *)
(* the adapter from it has failed); and over requests that are sound or    *)
(* wrong in one way.                                                       *)
(***************************************************************************)
EXTENDS NativeRouting

Full == UNION {Pair(g) : g \in {"if", "lif", "plif"}}
Everything == UNION {Pair(g) : g \in Known}
Undeclared == [g \in {} |-> {}]
Unversioned(symbols) ==
  [callable |-> symbols, metadata |-> "none", declared |-> Undeclared]
Versioned(symbols, groups) ==
  [callable |-> symbols, metadata |-> "declared",
   declared |-> [g \in groups |-> Pair(g)]]

Bundle(x) ==
  [direct |-> "absent", complete |-> TRUE, torch_npu |-> "loads",
   library |-> "loads", extension |-> "loads", registers |-> TRUE, module |-> x]
Basic == Unversioned(Full)

Nothing == [Bundle(Basic) EXCEPT !.complete = FALSE]
OldBundle == Bundle(Basic)
HalfCompact ==
  [Bundle(Unversioned(Full \cup {<<"if_compact", "forward">>}))
     EXCEPT !.registers = FALSE]
Source == [Nothing EXCEPT !.direct = "loads", !.module = Unversioned(Everything)]
Promises(groups) == Bundle(Versioned(Everything, groups))
Release == Promises({"if", "lif", "plif", "lif_compact", "fedsnn_decay_lif"})
LaterRelease ==
  [Bundle(Versioned(Everything \cup Pair(Later), {"if", "if_compact", Later}))
     EXCEPT !.registers = FALSE]
Overpromising == Bundle(Versioned(Full, {"if", "klif"}))
NoLibrary == [Bundle(Basic) EXCEPT !.library = "OSError"]
Unlinked == [OldBundle EXCEPT !.extension = "ImportError"]
NoPlif == Bundle(Unversioned(Pair("if") \cup Pair("lif")))

MCInstallations ==
  {Nothing, OldBundle, HalfCompact, Source, Release, LaterRelease,
   Overpromising, NoLibrary, NoPlif}
MCUnloadable == {Nothing, OldBundle, Unlinked}

Plain(op) ==
  [op |-> op, requested |-> "aspy", store |-> FALSE, strict |-> TRUE,
   grad |-> FALSE, dtype |-> "bf16", stateDtype |-> "fp32", format |-> "nd",
   converted |-> "nd", defect |-> "none"]
Differentiated(op) ==
  {[Plain(op) EXCEPT !.strict = FALSE, !.grad = TRUE, !.store = s] : s \in BOOLEAN}
Typed(op) ==
  {[Plain(op) EXCEPT !.dtype = d, !.stateDtype = v, !.requested = "cupy"] :
     d, v \in Dtypes}
Flawed(op) ==
  {[Plain(op) EXCEPT !.defect = d] :
     d \in {"layout", "state_shape", "threshold", "tau", "scalar", "decay"}}
  \cup {[Plain(op) EXCEPT !.format = f, !.converted = c] :
         f \in {"nd", "ncdhw"}, c \in {"nd", "other"}}

MCRequests == UNION {Differentiated(op) \cup Typed(op) \cup Flawed(op) : op \in Operations}
MCFewRequests == {Plain(op) : op \in Operations}
=============================================================================
