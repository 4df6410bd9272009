----------------------------- MODULE RequestLife ------------------------------
(***************************************************************************)
(* What the user is promised of a request, whatever transport carries it:  *)
(* it is open from the moment it is sent until it ends once, for one       *)
(* reason, or is left behind by a new conversation, another transport or a *)
(* reload; no other is open meanwhile; only an open request's reply grows, *)
(* in the conversation it was asked in; and the reply is finished by its   *)
(* being answered and in no other way.  CoachController implements it.     *)
(***************************************************************************)
CONSTANTS
  Requests,  \* request ids
  Sessions,  \* conversations
  Nowhere,   \* none of them
  Outcomes   \* the reasons a request ends for, "answered" apart

VARIABLES
  life,   \* of each request: "unsent", "open", "left", "answered" or an outcome
  asked,  \* the conversation it was asked in
  reply   \* reply[s][r]: "none", "partial" or "final"

lifeVars == <<life, asked, reply>>

LifeInit ==
  /\ life  = [r \in Requests |-> "unsent"]
  /\ asked = [r \in Requests |-> Nowhere]
  /\ reply = [s \in Sessions |-> [r \in Requests |-> "none"]]

Becomes(r, what) == life' = [life EXCEPT ![r] = what]
Shows(r, text)   == reply' = [reply EXCEPT ![asked[r]][r] = text]

(* A request is sent, or turns out at once not to be deliverable.          *)
Ask(r, s) ==
  /\ life[r] = "unsent" /\ \A q \in Requests : life[q] # "open"
  /\ Becomes(r, "open") \/ \E why \in Outcomes : Becomes(r, why)
  /\ asked' = [asked EXCEPT ![r] = s]
  /\ UNCHANGED reply

Stream(r) ==
  /\ life[r] = "open" /\ Shows(r, "partial")
  /\ UNCHANGED <<life, asked>>

Answer(r) ==
  /\ life[r] = "open" /\ Becomes(r, "answered") /\ Shows(r, "final")
  /\ UNCHANGED asked

(* It ends unanswered, or is left behind.                                  *)
Close(r) ==
  /\ life[r] = "open" /\ \E why \in Outcomes \cup {"left"} : Becomes(r, why)
  /\ UNCHANGED <<asked, reply>>

LifeNext ==
  \E r \in Requests :
    (\E s \in Sessions : Ask(r, s)) \/ Stream(r) \/ Answer(r) \/ Close(r)

LifeSpec == LifeInit /\ [][LifeNext]_lifeVars
=============================================================================
