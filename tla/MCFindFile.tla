----------------------------- MODULE MCFindFile -----------------------------
(***************************************************************************)
(* A medium with a directory of two clusters below the root, which has two *)
(* as well, a directory below that, a volume label with the name of a      *)
(* directory, and names that share a beginning.  FAT names are 3 + 2.      *)
(***************************************************************************)
EXTENDS FindFile

Ent(base, ext, kind, f) ==
  [base |-> base, ext |-> ext, kind |-> kind, file |-> f,
   attr |-> IF kind = "file" THEN " " ELSE "#"]

Top1 == <<Ent(<<"L">>, <<>>, "label", "label"), Ent(<<"L">>, <<"C">>, "file", "lc")>>
Top2 == <<Ent(<<"L">>, <<>>, "dir", "l"), Ent(<<"K">>, <<>>, "file", "k")>>
Sub1 == <<Ent(<<".">>, <<>>, "dir", "l"), Ent(<<"K", "L">>, <<>>, "dir", "kl")>>
Sub2 == <<Ent(<<"K">>, <<"C">>, "file", "kc"), Ent(<<"K", "L", "K">>, <<"C", "K">>, "file", "full")>>

(* Every directory has names that differ in more than their dot.           *)
MCMedium ==
  [d \in {"root", "l", "kl"} |->
     CASE d = "root" -> <<Top1, Top2>>
       [] d = "l"    -> <<Sub1, Sub2>>
       [] d = "kl"   -> <<<<Ent(<<"K">>, <<"C">>, "file", "deep")>>>>]

L == <<"L">>
K == <<"K">>
KC == <<"K", ".", "C">>
KL == <<"K", "L">>
Full == <<"K", "L", "K", ".", "C", "K">>
Here == <<".">>

MCPaths ==
  {<< <<>> >>, << <<>>, <<>> >>, <<K>>, << <<>>, K>>, <<L>>, <<KC>>,
   <<L, KC>>, << <<>>, L, Full>>, <<L, K>>, <<K, K>>, <<L, <<>>, KC>>,
   <<L, KL, KC>>, <<L, KL, K>>, <<L, KC, K>>, <<L, KL, KC, KC>>,
   <<L, Here, KL, Here>>, <<Here, K>>, <<Here>>, <<L, <<>> >>,
   <<L, KL, <<>> >>, << <<"L", ".", "C">> >>}
=============================================================================
