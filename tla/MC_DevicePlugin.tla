--------------------------- MODULE MC_DevicePlugin --------------------------
(***************************************************************************)
(* Values of the constants for the DevicePlugin runs.                      *)
(***************************************************************************)
EXTENDS DevicePlugin

SharedA == <<"shared", "a">>
SharedB == <<"shared", "b">>
ExclusiveName == <<"exclusive", "pool">>
DefaultName == <<"default", "pool">>

Usual == (SharedA :> {1}) @@ (ExclusiveName :> {2, 3}) @@ (DefaultName :> {0})
TwoShared == (SharedA :> {1}) @@ (SharedB :> {2})
EmptyShared == (SharedA :> {}) @@ (SharedB :> {2})

File(selector, pools) == [NodeSelector |-> selector, pools |-> pools]
Labels == {<<"nodeType", "worker">>, <<"zone", "a">>}
Worker == {<<"nodeType", "worker">>}
Master == {<<"nodeType", "master">>, <<"zone", "a">>}
Storage == {<<"nodeType", "storage">>}

(* The second of two files matches; the first one is not even valid.       *)
Second == [files |-> <<File(Storage, TwoShared), File(Worker, Usual)>>, labels |-> Labels]
(* Both match: the first one by a label that is not the one meant.         *)
Both == [files |-> <<File(Master, EmptyShared), File(Worker, Usual)>>, labels |-> Labels]
(* No file matches.                                                        *)
Nothing == [files |-> <<File(Storage, Usual)>>, labels |-> Labels]
(* Without a Node name the first file is taken.                            *)
Anonymous == [files |-> <<File(Storage, TwoShared), File(Worker, Usual)>>, labels |-> NoLabels]

UsualOnly == {[files |-> <<File(Worker, Usual)>>, labels |-> Labels]}
AnyConfig == {Second, Both, Nothing, Anonymous}
=============================================================================
