---------------------------- MODULE ComponentData ---------------------------
(* What the instances for TLC are made of: the versions that the metadata   *)
(* server has, and the components that the files list.  A loader needs a    *)
(* mapping for the version of the game; game and mapping need a library.    *)
EXTENDS Naturals, TLC

Requires(u, equals, suggests) == [uid |-> u, equals |-> equals, suggests |-> suggests]
Provides(requires, volatile) == [requires |-> requires, volatile |-> volatile]

TheMetadata ==
    (<<"game", 1>> :> Provides({Requires("lib", 0, 1)}, FALSE))
    @@ (<<"game", 2>> :> Provides({Requires("lib", 2, 0)}, FALSE))
    @@ (<<"game", 3>> :> Provides({}, FALSE))
    @@ (<<"loader", 1>> :> Provides({Requires("mapping", 0, 0)}, FALSE))
    @@ (<<"loader", 2>> :> Provides({Requires("lib", 1, 0)}, FALSE))
    @@ (<<"mapping", 1>> :> Provides({Requires("game", 1, 0)}, TRUE))
    @@ (<<"mapping", 3>> :> Provides({Requires("lib", 0, 1)}, TRUE))
    @@ (<<"lib", 1>> :> Provides({}, TRUE)) @@ (<<"lib", 2>> :> Provides({}, TRUE))

TheOrder == <<"game", "lib", "loader", "mapping">>
TheDefault == [u \in {"game", "loader", "mapping", "lib"} |-> 0]

Entry(u, v, dep) ==
    [uid |-> u, version |-> v, cached |-> v, requires |-> TheMetadata[<<u, v>>].requires, dep |-> dep]

(* Two components without their dependencies; two that contradict each      *)
(* other; a library of another version than the game's; two dependencies    *)
(* nobody requires, one by way of the other.                                *)
TheFiles ==
    {<<Entry("game", 1, FALSE), Entry("loader", 1, FALSE)>>,
     <<Entry("game", 2, FALSE), Entry("loader", 2, FALSE)>>,
     <<Entry("lib", 1, TRUE), Entry("game", 2, FALSE)>>,
     <<Entry("lib", 1, TRUE), Entry("mapping", 3, TRUE), Entry("game", 3, FALSE)>>}
=============================================================================
