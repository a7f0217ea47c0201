----------------------------- MODULE PoolTypes ------------------------------
(***************************************************************************)
(* The names and the types of CPU pools (pkg/types/pool.go).               *)
(*                                                                         *)
(* A pool name is a sequence of words, "exclusive-pool-b" being            *)
(* <<"exclusive", "pool", "b">>: strings.HasPrefix is the prefix order on  *)
(* these sequences and strings.Contains is the occurrence of a word.       *)
(***************************************************************************)
EXTENDS Sequences, SequencesExt

SharedPoolID == "shared"
ExclusivePoolID == "exclusive"
CloudphonePoolID == "cloudphone"
DefaultPoolID == "default"
MultiThreadHTPolicy == "multiThreaded"
SingleThreadHTPolicy == "singleThreaded"

HasPrefix(name, prefix) == IsPrefix(prefix, name)
HasWord(name, word) == Contains(name, word)

DeterminePoolType(name) ==
  CASE HasPrefix(name, <<SharedPoolID>>)     -> SharedPoolID
    [] HasPrefix(name, <<ExclusivePoolID>>)  -> ExclusivePoolID
    [] HasPrefix(name, <<CloudphonePoolID>>) -> CloudphonePoolID
    [] OTHER                                 -> DefaultPoolID
=============================================================================
