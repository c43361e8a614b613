------------------------------ MODULE MCLedger ------------------------------
(* Model values and the requests of the TLC instance of Ledger. *)
EXTENDS Ledger, TLC

CONSTANTS alice, bob

TwoAuthors      == {alice, bob}
TwoPersonas     == {"first", "second"}
AuthorSymmetry  == Permutations({alice, bob})

Plain(op, refs) ==
  [op : {op}, ref : refs, active : {TRUE}, persona : {"first"}]

SomeRequests ==
  UNION {Plain("flag", {0}), Plain("resolve", {1, 2}), Plain("note", {0}),
         Plain("instruct", {0}), Plain("revoke", {1}),
         Plain("seed", {0, 1}), Plain("deactivate", {1, 3}), Plain("post", {0}),
         [op : {"seed"}, ref : {0}, active : {FALSE}, persona : {"first"}],
         [op : {"configure"}, ref : {0}, active : {TRUE}, persona : TwoPersonas]}
=============================================================================
