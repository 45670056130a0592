------------------------------ MODULE TwoFactor ------------------------------
(***************************************************************************)
(* The second factor of one enrolled user: time-based codes with their     *)
(* replay lockout, and one-time recovery codes.  An authenticator shows    *)
(* the code of its own clock's step; several verifications may be under    *)
(* way, each cut where it awaits the replay store.                         *)
(***************************************************************************)
EXTENDS Integers, Sequences, SequencesExt, FiniteSetsExt

CONSTANTS
    Secrets,            \* byte sequences the random generator may return
    Truncated,          \* the digits left of the hash, by step: two steps may share them
    LastStep,           \* bound: the clock stops at this step
    DriftSteps,         \* steps of clock drift that are tolerated
    Verifiers,          \* verifications that may be under way at once
    RecoverySecrets     \* sequence: the random bytes of each recovery code

ASSUME SecretsAssumption == Secrets \subseteq Seq(0..255)
ASSUME RecoverySecretsAssumption == RecoverySecrets \in Seq(Seq(0..255))
ASSUME DriftAssumption == DriftSteps \in Nat /\ DOMAIN Truncated = 0..LastStep + DriftSteps

NoStep == -1

-----------------------------------------------------------------------------
(* Base32: bits are taken in at one width and given out at another.  The    *)
(* accumulator keeps 32 bits, of which only those not yet given out are     *)
(* read again.                                                              *)

\* One more digit is taken in, and what is whole of it is given out.
Take(acc, digit, from, to) ==
    LET bits  == acc.bits + from
        value == acc.value * 2^from + digit
        left  == bits % to
    IN  [bits  |-> left,
         value |-> value % 2^left,
         out   |-> acc.out \o
             [i \in 1..(bits \div to) |-> (value \div 2^(bits - to * i)) % 2^to]]

Regroup(digits, from, to) ==
    FoldLeft(LAMBDA acc, digit : Take(acc, digit, from, to),
             [bits |-> 0, value |-> 0, out |-> <<>>], digits)

Base32Encode(bytes) ==
    LET end == Regroup(bytes, 8, 5)
    IN  IF end.bits > 0 THEN Append(end.out, end.value * 2^(5 - end.bits)) ELSE end.out

\* The alphabet is 0..31; the dash stands for all that is no symbol of it.
Dash == 32

\* Case, spaces, dashes and padding are dropped from what a person types.
Typed(text) ==
    LET kept == {i \in DOMAIN text : text[i] # Dash}
        Place(i) == Cardinality({j \in kept : j <= i})
    IN  [k \in 1..Cardinality(kept) |-> text[CHOOSE i \in kept : Place(i) = k]]

Base32Decode(text) == Regroup(Typed(text), 5, 8).out

-----------------------------------------------------------------------------

VARIABLES
    secret,         \* the bytes generated at enrollment, and the text stored of them
    current,        \* the step of the server's clock
    lastAccepted,   \* the replay store's entry for the user
    verifying,      \* per verification: what it matched and read before its await
    highest,        \* history: the highest step accepted
    overlapped,     \* history: two verifications were under way at once
    reused,         \* history: a step was accepted at or below the highest
    wronged,        \* history: an honest code was refused
    recovery,       \* the stored set of recovery codes: hashes and marks
    spent           \* history: the recovery codes that were taken, in order

totpVars == <<secret, current, lastAccepted, verifying, highest, overlapped, reused, wronged>>

recoveryVars == <<recovery, spent>>

Waiting == [matched |-> NoStep, read |-> NoStep, honest |-> FALSE]

UnderWay(v) == verifying[v] # Waiting

\* Groups of four, joined by dashes.
FormatRecoveryCode(raw) ==
    FoldLeft(LAMBDA text, i : text \o (IF i > 1 THEN <<Dash>> ELSE <<>>) \o SubSeq(raw, 4 * i - 3, 4 * i),
             <<>>, [i \in 1..(Len(raw) \div 4) |-> i])

\* A hash tells codes apart as they are without case and separators.
HashRecoveryCode(code) == Typed(code)

RecoveryCodes == [i \in DOMAIN RecoverySecrets |-> FormatRecoveryCode(Base32Encode(RecoverySecrets[i]))]

CreateTotpEnrollment(bytes) == [bytes |-> bytes, text |-> Base32Encode(bytes)]

TwoFactorInit ==
    /\ secret \in {CreateTotpEnrollment(bytes) : bytes \in Secrets}
    /\ current = 0
    /\ lastAccepted = NoStep
    /\ verifying = [v \in Verifiers |-> Waiting]
    /\ highest = NoStep
    /\ overlapped = FALSE /\ reused = FALSE /\ wronged = FALSE
    /\ recovery = [hashes   |-> [i \in DOMAIN RecoveryCodes |-> HashRecoveryCode(RecoveryCodes[i])],
                   consumed |-> [i \in DOMAIN RecoveryCodes |-> FALSE]]
    /\ spent = <<>>

NextStep ==
    /\ current < LastStep
    /\ current' = current + 1
    /\ UNCHANGED <<secret, lastAccepted, verifying, highest, overlapped, reused, wronged>>

-----------------------------------------------------------------------------

Hotp(bytes, step) == <<bytes, Truncated[step]>>

\* The steps around the clock whose code this is; the earliest one counts.
MatchTotpCode(code) ==
    LET hits == {step \in current - DriftSteps..current + DriftSteps :
                    step >= 0 /\ Hotp(Base32Decode(secret.text), step) = code}
    IN  IF hits = {} THEN NoStep ELSE Min(hits)

\* The code of the user's own authenticator, its clock within the drift, its
\* step past all that were accepted, and no earlier step in the window with the
\* same digits.
Honest(bytes, shown) ==
    LET window == {step \in current - DriftSteps..current + DriftSteps : step >= 0}
    IN  /\ bytes = secret.bytes
        /\ shown \in window
        /\ shown > highest
        /\ \A step \in window : step < shown => Truncated[step] # Truncated[shown]

\* verify, up to the await on the replay store, whose entry is read as the call
\* is made.  The code is the one that an authenticator holding these bytes
\* showed at that step.
Present(v, bytes, shown) ==
    LET matched == MatchTotpCode(Hotp(bytes, shown))
    IN  /\ ~UnderWay(v)
        /\ IF matched = NoStep
           THEN /\ wronged' = (wronged \/ Honest(bytes, shown))
                /\ UNCHANGED <<verifying, overlapped>>
           ELSE /\ verifying' = [verifying EXCEPT ![v] =
                       [matched |-> matched, read |-> lastAccepted, honest |-> Honest(bytes, shown)]]
                /\ overlapped' = (overlapped \/ \E w \in Verifiers \ {v} : UnderWay(w))
                /\ UNCHANGED wronged
        /\ UNCHANGED <<secret, current, lastAccepted, highest, reused>>

SameStepOnly(request) == request.matched = request.read                 \* mutant

Replayed(request) == request.matched <= request.read

\* verify, after that await: what was read then decides.
RefuseReplay(v) ==
    /\ UnderWay(v)
    /\ Replayed(verifying[v])
    /\ wronged' = (wronged \/ verifying[v].honest)
    /\ verifying' = [verifying EXCEPT ![v] = Waiting]
    /\ UNCHANGED <<secret, current, lastAccepted, highest, overlapped, reused>>

Accept(v) ==
    /\ UnderWay(v)
    /\ ~Replayed(verifying[v])
    /\ lastAccepted' = verifying[v].matched
    /\ highest' = Max({highest, verifying[v].matched})
    /\ reused' = (reused \/ verifying[v].matched <= highest)
    /\ verifying' = [verifying EXCEPT ![v] = Waiting]
    /\ UNCHANGED <<secret, current, overlapped, wronged>>

TotpNext ==
    \/ NextStep
    \/ \E v \in Verifiers :
          \/ \E bytes \in Secrets, shown \in DOMAIN Truncated : Present(v, bytes, shown)
          \/ RefuseReplay(v)
          \/ Accept(v)

-----------------------------------------------------------------------------

\* The caller loads the set, burns a code in it and stores it, atomically: the
\* code leaves that to the storage.
Consume(code) ==
    LET hits == {i \in DOMAIN recovery.hashes :
                    recovery.hashes[i] = HashRecoveryCode(code) /\ ~recovery.consumed[i]}
    IN  /\ hits # {}
        /\ recovery' = [recovery EXCEPT !.consumed[Min(hits)] = TRUE]
        /\ spent' = Append(spent, Min(hits))

RemainingCount == Cardinality({i \in DOMAIN recovery.consumed : ~recovery.consumed[i]})

RecoveryNext == \E code \in ToSet(RecoveryCodes) : Consume(code) \/ Consume(Typed(code))

-----------------------------------------------------------------------------

\* "Consuming a step burns it AND everything before it" (totp.ts:237-238): the
\* steps accepted rise.  Two verifications under way together both read the
\* store before either writes it and may both pass, with one code, or the later
\* step first, which then is not burnt: so it is said of verifications that
\* never overlapped.
StepsRise == reused => overlapped

\* Who types the code their authenticator shows is let in: the secret survives
\* its way through base32, and nothing but a later step accepted, or an earlier
\* one with the same digits, may stand in the way.
HonestCodesPass == ~wronged

\* A recovery code is taken once, and what remains is what was not taken.
RecoveryCodesBurn ==
    /\ IsInjective(spent)
    /\ RemainingCount + Len(spent) = Len(RecoverySecrets)
=============================================================================
