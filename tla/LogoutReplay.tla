---------------------------- MODULE LogoutReplay ----------------------------
(***************************************************************************)
(* flows/demonstrator/identity-on-start.js: which back-channel logout      *)
(* tokens the UI's session boundary accepts, and its memory of the ones it *)
(* has accepted (replays), which is what refuses a repeated delivery.      *)
(*                                                                         *)
(* verify() reads the time in whole seconds, cleanup() and the memory in   *)
(* milliseconds.  An instant is therefore a second and a millisecond in    *)
(* it, compared in this order.  A request waits for keys before it reads   *)
(* the time, never after: from then on it is one turn of the event loop.   *)
(***************************************************************************)
EXTENDS Integers, FiniteSets

CONSTANTS
    Token,           \* logout tokens of the identity provider, one per jti
    Millis,          \* milliseconds in a second
    Window,          \* 300 s: the age up to which a token is accepted, and
                     \*        the time an accepted one is remembered
    Skew,            \* 30 s: how far in the future a token may be issued
    Limit,           \* the replays remembered at most
    MaxSecond,       \* bound: the last second of the clock
    Never

ASSUME LogoutAssumption ==
    /\ Millis \in Nat \ {0}
    /\ Window \in Nat \ {0}
    /\ Skew \in Nat
    /\ Limit \in Nat
    /\ MaxSecond \in Nat
    /\ IsFiniteSet(Token)
    /\ Never \notin [sec : Nat, ms : 0..(Millis - 1)]

Instant == [sec : Nat, ms : 0..(Millis - 1)]

VARIABLES
    now,             \* Date.now()
    issued,          \* the iat of every token, a second
    replays,         \* accepted tokens: when they may be forgotten, or Never
    first,           \* history: the instant a token was first accepted
    twice            \* history: tokens this boundary has accepted again

vars == <<now, issued, replays, first, twice>>

AtOrBefore(a, b) == a.sec < b.sec \/ (a.sec = b.sec /\ a.ms <= b.ms)

Plus(a, seconds) == [a EXCEPT !.sec = @ + seconds]

Remembered == {t \in Token : replays[t] # Never}

TypeOK ==
    /\ now \in Instant
    /\ issued \in [Token -> Nat]
    /\ replays \in [Token -> Instant \cup {Never}]
    /\ first \in [Token -> Instant \cup {Never}]
    /\ twice \subseteq Token

-----------------------------------------------------------------------------
(* verify: the times of a signed logout token. *)
Current(t) ==
    /\ issued[t] <= now.sec + Skew
    /\ now.sec - issued[t] <= Window

(* Defect variant: a token is forgotten a second early. *)
CleanedEarly ==
    [t \in Token |->
        IF replays[t] # Never /\ replays[t].sec <= now.sec + 1 THEN Never ELSE replays[t]]

(* cleanup: the memory of a token that may be forgotten by now goes. *)
Cleaned ==
    [t \in Token |->
        IF replays[t] # Never /\ AtOrBefore(replays[t], now) THEN Never ELSE replays[t]]

(* Defect variant: one too many. *)
FullOverLimit(memory) == Cardinality({t \in Token : memory[t] # Never}) > Limit

Full(memory) == Cardinality({t \in Token : memory[t] # Never}) >= Limit

Init ==
    /\ now = [sec |-> 0, ms |-> 0]
    /\ issued \in [Token -> 0..MaxSecond]
    /\ replays = [t \in Token |-> Never]
    /\ first = [t \in Token |-> Never]
    /\ twice = {}

(* backchannel: a token that is not current changes nothing; one that is   *)
(* cleans the memory, and is refused when it is remembered or the memory   *)
(* is full.                                                                *)
Refuse(t) ==
    /\ Current(t)
    /\ Cleaned[t] # Never \/ Full(Cleaned)
    /\ replays' = Cleaned
    /\ UNCHANGED <<now, issued, first, twice>>

Accept(t) ==
    /\ Current(t)
    /\ Cleaned[t] = Never
    /\ ~Full(Cleaned)
    /\ replays' = [Cleaned EXCEPT ![t] = Plus(now, Window)]
    /\ first' = [first EXCEPT ![t] = IF @ = Never THEN now ELSE @]
    /\ twice' = IF first[t] = Never THEN twice ELSE twice \cup {t}
    /\ UNCHANGED <<now, issued>>

(* The clean-up of any other request. *)
Cleanup ==
    /\ replays' = Cleaned
    /\ UNCHANGED <<now, issued, first, twice>>

(* reset, and the boundary that a restart puts in its place. *)
Reset ==
    /\ replays' = [t \in Token |-> Never]
    /\ first' = [t \in Token |-> Never]
    /\ twice' = {}
    /\ UNCHANGED <<now, issued>>

Tick ==
    /\ now' = IF now.ms < Millis - 1
              THEN [now EXCEPT !.ms = @ + 1]
              ELSE [sec |-> now.sec + 1, ms |-> 0]
    /\ now'.sec <= MaxSecond
    /\ UNCHANGED <<issued, replays, first, twice>>

Next ==
    \/ Tick
    \/ Cleanup
    \/ Reset
    \/ \E t \in Token : Accept(t) \/ Refuse(t)

Spec == Init /\ [][Next]_vars

-----------------------------------------------------------------------------
(* PROPERTIES *)

(* What holds of "rejects replay": only a token that was first accepted    *)
(* before the second after its issue began is ever accepted again.  (It is *)
(* remembered for Window from its receipt, and current until Window + 1 s  *)
(* after its issue.)                                                       *)
OnlyEarlyArrivalsTwice ==
    \A t \in twice : first[t].sec <= issued[t]

(* The memory never exceeds its limit. *)
ReplaysBounded == Cardinality(Remembered) <= Limit

(* The inductive invariant: a token accepted a second or more after its    *)
(* issue is remembered for Window, or that time has passed.                *)
StillRemembered(t) ==
    \/ replays[t] # Never /\ AtOrBefore(Plus(first[t], Window), replays[t])
    \/ AtOrBefore(Plus(first[t], Window), now)

ReplayInv ==
    /\ TypeOK
    /\ \A t \in Token : first[t] # Never => StillRemembered(t)
    /\ \A t \in twice : first[t] # Never
    /\ OnlyEarlyArrivalsTwice
=============================================================================
