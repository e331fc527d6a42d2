----------------------------- MODULE MCNetwork ------------------------------
(***************************************************************************)
(* The network alone, for the run that follows a machine to the address    *)
(* its DHCP client obtained.                                               *)
(***************************************************************************)
EXTENDS Network

MCAddresses == {<<10, 1>>, <<10, 2>>}
MCPool      == [s \in Servers |-> {<<10, 1>>}]
=============================================================================
