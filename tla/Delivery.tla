------------------------------ MODULE Delivery ------------------------------
(***************************************************************************)
(* What a bee-sync server promises about ONE file name, with nothing said  *)
(* of chunks, part files, metadata or connections: a session that asks for *)
(* a content is answered "exists" or "ok" only while the file holds that   *)
(* content, and a file that holds the content a session wants is never     *)
(* opened for writing by that session.  FileReceiver implements this when  *)
(* the sessions of the name follow one another (see ServerPromise there).  *)
(***************************************************************************)
CONSTANTS Session,      \* control connections
          Content,      \* contents, told apart by their BLAKE3 digest
          Broken,       \* a file that holds none of them
          Nothing       \* a session that asks for nothing

VARIABLES file,         \* what the file of this name holds
          wants,        \* what each session wants it to hold
          verdict       \* what each session has been told

vars == <<file, wants, verdict>>

Verdict == {"none", "pending", "exists", "ok", "err"}

TypeOK == /\ file \in Content \cup {Broken}
          /\ wants \in [Session -> Content \cup {Nothing}]
          /\ verdict \in [Session -> Verdict]

Init == /\ file = Broken
        /\ wants = [s \in Session |-> Nothing]
        /\ verdict = [s \in Session |-> "none"]

(* A session asks for a content; it is told at once when the file holds it. *)
Ask(s, d) == /\ verdict[s] = "none"
             /\ wants' = [wants EXCEPT ![s] = d]
             /\ verdict' = [verdict EXCEPT
                              ![s] = IF file = d THEN "exists" ELSE "pending"]
             /\ UNCHANGED file

(* The file is opened for writing: whatever it held is lost.               *)
Overwrite(s) == /\ verdict[s] = "pending"
                /\ file # wants[s]
                /\ file' = Broken
                /\ UNCHANGED <<wants, verdict>>

(* The last byte of the content reaches the file.                          *)
Install(s) == /\ verdict[s] = "pending"
              /\ file = Broken
              /\ file' = wants[s]
              /\ UNCHANGED <<wants, verdict>>

Confirm(s) == /\ verdict[s] = "pending"
              /\ file = wants[s]
              /\ verdict' = [verdict EXCEPT ![s] = "ok"]
              /\ UNCHANGED <<file, wants>>

Fail(s) == /\ verdict[s] = "pending"
           /\ verdict' = [verdict EXCEPT ![s] = "err"]
           /\ UNCHANGED <<file, wants>>

(* A session ends, or the server stops and every session ends with it.     *)
Leave(S) == /\ verdict' = [s \in Session |-> IF s \in S THEN "none"
                                                        ELSE verdict[s]]
            /\ wants' = [s \in Session |-> IF s \in S THEN Nothing
                                                      ELSE wants[s]]
            /\ UNCHANGED file

Next == \/ \E s \in Session, d \in Content : Ask(s, d)
        \/ \E s \in Session : \/ Overwrite(s) \/ Install(s)
                              \/ Confirm(s)   \/ Fail(s)
        \/ \E S \in {Session} \cup {{s} : s \in Session} : Leave(S)

Spec == Init /\ [][Next]_vars
=============================================================================
