---------------------------- MODULE MCPipelines ----------------------------
(* Small instances of Pipelines for TLC.                                     *)
EXTENDS Pipelines

\* Each of them comes to an end if pipes do what they should.
SomeOrders ==
  {<<"echo">>, <<"none">>, <<"echo", "cat", "cat">>, <<"yes", "head", "cat">>,
   <<"yes", "cat", "head">>, <<"yes", "none">>, <<"none", "cat", "head">>}

\* Three entries, each in the top directory or in an earlier entry.
SomeTrees ==
  {t \in [in : [{"a", "b", "c"} -> {None, "a", "b"}], dirs : SUBSET {"a", "b", "c"},
          named : {{"a", "c"}, {"b", "c"}, {"a", "b", "c"}}] :
     /\ t.in["a"] = None /\ t.in["b"] # "b"
     /\ \A e \in {"b", "c"} : t.in[e] # None => t.in[e] \in t.dirs}
=============================================================================
