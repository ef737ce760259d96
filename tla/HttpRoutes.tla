------------------------------ MODULE HttpRoutes ------------------------------
(***************************************************************************)
(* The three sets of generic CRUD routes a composing service can mount.    *)
(* Every generic route asks its caller for one permission of its entity;   *)
(* an entity whose write routes are not mounted takes no generic write,    *)
(* whoever asks.                                                           *)
(***************************************************************************)
ReadRoutes  == {"read"}
WriteRoutes == {"create", "update", "delete", "restore", "purge"}
EveryRoute  == ReadRoutes \cup WriteRoutes

AllCrudRoutes  == [notification |-> EveryRoute, template |-> EveryRoute]
ReadonlyRoutes == [notification |-> ReadRoutes, template |-> ReadRoutes]
GuardedRoutes  == [notification |-> ReadRoutes, template |-> EveryRoute]

Surfaces == {AllCrudRoutes, ReadonlyRoutes, GuardedRoutes}
=============================================================================
