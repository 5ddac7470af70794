---------------------------- MODULE CompilerCache ----------------------------
(***************************************************************************)
(* What the cache of resolc compilers promises, without lists, downloads,  *)
(* mutex or processes: a store of compilers that are fit for use, which    *)
(* only grows, and requests that are answered once, with the compiler of   *)
(* the version asked for out of that store or with a refusal.              *)
(***************************************************************************)
CONSTANTS
  Requests,      \* runs of the build subtask
  Names,         \* versions of resolc
  Places,        \* platform directories
  Invalid,       \* a requested version that is none
  Open, Refused  \* answers other than a compiler

VARIABLES
  stored,  \* <<place, name>> of every compiler fit for use
  asked,   \* asked[r]: the version request r is for
  answer   \* answer[r]: Open, Refused, or the <<place, name>> handed out

vars == <<stored, asked, answer>>

TypeOK ==
  /\ stored \in SUBSET (Places \X Names)
  /\ asked \in [Requests -> Names \cup {Invalid}]
  /\ answer \in [Requests -> (Places \X Names) \cup {Open, Refused}]

Init ==
  /\ stored = {}
  /\ asked = [r \in Requests |-> Invalid]
  /\ answer = [r \in Requests |-> Open]

Ask(r, v) ==
  /\ answer[r] = Open /\ asked[r] = Invalid
  /\ asked' = [asked EXCEPT ![r] = v]
  /\ UNCHANGED <<stored, answer>>

\* A compiler becomes fit for use, or its platform does not need more.
Store(place, name) ==
  /\ stored' = stored \cup {<<place, name>>}
  /\ UNCHANGED <<asked, answer>>

Serve(r, place) ==
  /\ answer[r] = Open
  /\ <<place, asked[r]>> \in stored
  /\ answer' = [answer EXCEPT ![r] = <<place, asked[r]>>]
  /\ UNCHANGED <<stored, asked>>

Refuse(r) ==
  /\ answer[r] = Open
  /\ answer' = [answer EXCEPT ![r] = Refused]
  /\ UNCHANGED <<stored, asked>>

Next ==
  \/ \E r \in Requests :
       \/ \E v \in Names \cup {Invalid} : Ask(r, v)
       \/ \E place \in Places : Serve(r, place)
       \/ Refuse(r)
  \/ \E place \in Places, name \in Names : Store(place, name)

Spec == Init /\ [][Next]_vars
=============================================================================
