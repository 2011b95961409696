--------------------------- MODULE MCAuthSessions ----------------------------
(***************************************************************************)
(* AuthSessions with two people, one of whom has an account.               *)
(***************************************************************************)
EXTENDS AuthSessions, TLC

CONSTANTS ann, bob, s1, s2

MCKeys == Clients \X Paths

MCLower == [x \in Spellings |-> CASE x = "Ann" -> "ann" [] x = "Zoe" -> "zoe" [] OTHER -> x]

Form(client, email, username) == [client |-> client, email |-> email, username |-> username]

\* New names, one of which both want, and Ann's names, also in capitals.
MCForms ==
  {Form(bob, "bob", "bob"), Form(ann, "Zoe", "bob"), Form(bob, "bob", "ann"),
   Form(bob, "Ann", "bob")}

Symmetric == Permutations(Sessions)

AnnHasOne == "ann" :> [username |-> "ann", secret |-> ann, active |-> TRUE]
=============================================================================
