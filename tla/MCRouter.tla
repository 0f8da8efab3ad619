------------------------------ MODULE MCRouter ------------------------------
(* Small instances of Router: the constants that a .cfg cannot write.      *)
EXTENDS Router, TLC

\* "Lab_1" is the room "lab_1"; "x" is too short for roomNameRegexp.
MCCanonical == "Lab_1" :> "lab_1" @@ "dock2" :> "dock2" @@ "x" :> BadName
MCSpelling == DOMAIN MCCanonical

\* Clients are interchangeable: no CHOOSE of the handlers is over clients.
ClientSymmetry == Permutations(Client)

=============================================================================
