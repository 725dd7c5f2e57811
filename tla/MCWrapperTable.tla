--------------------------- MODULE MCWrapperTable ---------------------------
(* The wrapper table alone: three slots, one function, every BindInfo. *)
EXTENDS WrapperClient, TLC

MCFuncIds == {0}
MCSigOf == [b \in Bodies |-> CHOOSE s \in Sigs : TRUE]

=============================================================================
