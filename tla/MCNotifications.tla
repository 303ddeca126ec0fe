-------------------------- MODULE MCNotifications ---------------------------
(* Notifications with the constants of its model-checking runs.             *)
EXTENDS Notifications, TLC

CONSTANTS ann, bob, web, mobile

EveryKind == ReqKinds

Symmetry == Permutations(Users)
=============================================================================
