----------------------------- MODULE MCVaultLog -----------------------------
(***************************************************************************)
(* Instances of VaultLog for TLC: a root and one member, who holds the     *)
(* grant g1 from the start when the instance has it.                       *)
(***************************************************************************)
EXTENDS VaultLog

CONSTANTS alice, g1

MCGenesis ==
    {[key |-> g, counter |-> 1, content |-> "granted", slots |-> {}, signer |-> root] :
        g \in Grants \cap {g1}}

MCSubject == [g \in Grants |-> alice]

=============================================================================
