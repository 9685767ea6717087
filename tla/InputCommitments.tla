--------------------------- MODULE InputCommitments ---------------------------
(* While a ranked match is played, each participant commits to its own inputs:
   its recorder (sim/rankedInputCommitment.ts) seals the frames of a round into
   chunks, hashes them into a chain and submits them one at a time; the server
   (ranked/inputCommitmentStore.ts, behind its route in server.ts) appends them
   under the session's lock with its own clock, and checks at settlement that
   the chain covers the proof at a credible pace.  One participant and its
   chain: the two chains never meet before settlement.

   A digest is modelled by what it binds: the digest of a chunk by the chunk, the
   digest of a chain by the sequence of its chunks.  The simulation is what the
   recorder sees of it: frames, the mutual confirmation, the archived prefix
   and the final frame of each round.  The clock counts frame durations. *)
EXTENDS Integers, Sequences, FiniteSetsExt

CONSTANTS
    MaxFrames,      \* RANKED_INPUT_COMMITMENT_MAX_FRAMES, 120 in the code
    Guard,          \* RANKED_INPUT_COMMITMENT_ROLLBACK_GUARD_FRAMES, 120
    MaxAttempts,    \* attempts of one submission, 3
    Replenish,      \* frames of credit per frame of time, 1/0.25 = 4
    Rounds,         \* rounds of the match
    Transition,     \* the pause between rounds, 72 frame times
    LastFrame,      \* bound on the frames of a round
    MaxLag,         \* bound on how long a queued chunk waits for the server
    MaxWaits        \* bound on the frame times in which nothing is simulated

CommitmentAssumption ==
    /\ {MaxFrames, Guard, MaxAttempts, Replenish, Rounds} \subseteq Nat \ {0}
    /\ {LastFrame, Transition, MaxLag, MaxWaits} \subseteq Nat

PredictionWindow == Guard - 1
Burst == MaxFrames + Guard
None == [epoch |-> -1]

VARIABLES
    now, delay,     \* the clock; frame times until the next frame may be simulated
    waits,          \* frame times in which nothing was simulated
    frame, mutual,  \* simulation: the next frame, the mutual confirmation
    archived,       \* replayRecorder.currentRoundFrameCount - 1
    lengths,        \* the rounds finalized so far, by their number of frames
    pending,        \* pendingRound: epoch, start, inputs (their number), or None
    queued,         \* sealed chunks without a receipt, with the time they were sealed
    nextSequence, previousChain, failed,
    attempt,        \* the attempt of the chunk being submitted, 0 when none is
    requests,       \* submissions on their way to the server
    answers,        \* answers to the current attempt
    stored          \* ranked_input_commitments

simulation == <<delay, waits, frame, mutual, archived, lengths>>
recorder == <<pending, queued, nextSequence, previousChain, failed, attempt>>
network == <<requests, answers>>
vars == <<now, simulation, recorder, network, stored>>

Init ==
    /\ now = 0 /\ delay = 0 /\ waits = 0
    /\ frame = 0 /\ mutual = -1 /\ archived = -1 /\ lengths = <<>>
    /\ pending = [epoch |-> 0, start |-> 0, inputs |-> 0]
    /\ queued = <<>> /\ nextSequence = 0 /\ previousChain = <<>> /\ failed = FALSE
    /\ attempt = 0 /\ requests = {} /\ answers = {} /\ stored = <<>>

-----------------------------------------------------------------------------
(* The recorder. *)

Chunk(round, sequence, inputs, roundFinal) ==
    [sequence |-> sequence, epoch |-> round.epoch, start |-> round.start,
     end |-> round.start + inputs - 1, final |-> roundFinal]

(* How many full chunks may leave the open round before a frame is recorded:
   the guard stays, and so does the last frame known to be canonical, which may
   turn out to end the round. *)
Sealable(round, canonicalThrough) ==
    LET may(n) == /\ round.inputs - (n - 1) * MaxFrames >= Burst
                  /\ round.start + n * MaxFrames - 1 < canonicalThrough
    IN  Max({n \in 0..round.inputs : \A m \in 1..n : may(m)})

(* The chunks a round of this many inputs is cut into: n full ones and, at
   the end of the round, what is left as the last. *)
FullChunks(round, n) ==
    [i \in 1..n |-> Chunk([round EXCEPT !.start = @ + (i - 1) * MaxFrames],
                          nextSequence + i - 1, MaxFrames, FALSE)]

FinalChunks(round) ==
    LET n == (round.inputs - 1) \div MaxFrames
    IN  Append(FullChunks(round, n),
               Chunk([round EXCEPT !.start = @ + n * MaxFrames], nextSequence + n,
                     round.inputs - n * MaxFrames, TRUE))

(* queueInputPrefix: the chunks are queued in order. *)
Queue(chunks) ==
    /\ queued' = queued \o [i \in 1..Len(chunks) |-> [chunk |-> chunks[i], sealed |-> now]]
    /\ nextSequence' = nextSequence + Len(chunks)

(* canAdvanceOnlineSimulation. *)
CanAdvance ==
    frame - (mutual + 1) < PredictionWindow

(* One simulated frame: the own input is recorded, then, after the frame has
   been simulated, what both sides have confirmed is archived. *)
SimulateFrame ==
    /\ pending # None /\ ~failed /\ delay = 0 /\ frame < LastFrame
    /\ CanAdvance
    /\ LET n == Sealable(pending, archived)
       IN  /\ Queue(FullChunks(pending, n))
           /\ pending' = [pending EXCEPT !.start = @ + n * MaxFrames,
                                         !.inputs = @ - n * MaxFrames + 1]
    /\ frame' = frame + 1
    /\ archived' = Min({mutual, frame})
    /\ delay' = 1
    /\ UNCHANGED <<now, waits, mutual, lengths, previousChain, failed, attempt, network, stored>>

(* A frame time passes: the loop owes the next frame, and drops the one it
   could not simulate.  Chunks are bounded in how long they stay queued. *)
Prompt == \A i \in DOMAIN queued : now - queued[i].sealed < MaxLag

Tick ==
    /\ Prompt /\ ~failed
    /\ pending # None \/ queued # <<>>
    /\ waits' = IF delay = 0 THEN waits + 1 ELSE waits
    /\ waits' <= MaxWaits
    /\ now' = now + 1 /\ delay' = Max({delay - 1, 0})
    /\ UNCHANGED <<frame, mutual, archived, lengths, recorder, network, stored>>

(* Inputs and confirmations of the peer arrive. *)
Confirm ==
    /\ pending # None /\ delay = 0
    /\ mutual' \in (mutual + 1)..(frame - 1)
    /\ UNCHANGED <<now, delay, waits, frame, archived, lengths, recorder, network, stored>>

(* finalizeRound: the round ends at a frame both sides have confirmed; the
   archive never passes the frame that decides a round.  Then the next round
   starts, or the match is over. *)
FinalFrames == {f \in archived..mutual : f >= 0 /\ f < frame}

FinalizeRound_Speculative(finalFrame) ==
    /\ pending # None /\ ~failed
    /\ IF finalFrame < pending.start THEN
            /\ failed' = TRUE
            /\ UNCHANGED <<now, simulation, pending, queued, nextSequence>>
       ELSE /\ failed' = failed
            /\ Queue(FinalChunks(pending))
            /\ lengths' = Append(lengths, finalFrame + 1)
            /\ pending' = IF Len(lengths) + 1 = Rounds THEN None
                          ELSE [epoch |-> pending.epoch + 1, start |-> 0, inputs |-> 0]
            /\ frame' = 0 /\ mutual' = -1 /\ archived' = -1 /\ delay' = Transition
            /\ UNCHANGED <<now, waits>>
    /\ UNCHANGED <<previousChain, attempt, network, stored>>

FinalizeRound(finalFrame) ==
    /\ pending # None /\ ~failed
    /\ IF finalFrame < pending.start THEN
            /\ failed' = TRUE
            /\ UNCHANGED <<now, simulation, pending, queued, nextSequence>>
       ELSE /\ failed' = failed
            /\ Queue(FinalChunks([pending EXCEPT !.inputs = finalFrame - pending.start + 1]))
            /\ lengths' = Append(lengths, finalFrame + 1)
            /\ pending' = IF Len(lengths) + 1 = Rounds THEN None
                          ELSE [epoch |-> pending.epoch + 1, start |-> 0, inputs |-> 0]
            /\ frame' = 0 /\ mutual' = -1 /\ archived' = -1 /\ delay' = Transition
            /\ UNCHANGED <<now, waits>>
    /\ UNCHANGED <<previousChain, attempt, network, stored>>

EndRound == \E f \in FinalFrames : FinalizeRound(f)

-----------------------------------------------------------------------------
(* Submission: drainQueue and the retries of submitOnlineRankedInputCommitment. *)

Submission == [chunk |-> queued[1].chunk, previous |-> previousChain, attempt |-> attempt]

Attempt ==
    /\ attempt' = attempt + 1
    /\ requests' = requests \cup {[Submission EXCEPT !.attempt = @ + 1]}
    /\ answers' = {}

Submit_WhileRecording ==
    /\ queued # <<>> /\ ~failed /\ attempt = 0 /\ pending # None
    /\ Attempt
    /\ UNCHANGED <<now, simulation, pending, queued, nextSequence, previousChain, failed, stored>>

Submit ==
    /\ queued # <<>> /\ ~failed /\ attempt = 0
    /\ Attempt
    /\ UNCHANGED <<now, simulation, pending, queued, nextSequence, previousChain, failed, stored>>

(* The connection fails or the server answers 429 or 5xx: another attempt, and
   the last one ends the recorder.  The request may still arrive. *)
LoseAttempt ==
    /\ attempt > 0
    /\ IF attempt < MaxAttempts
       THEN Attempt /\ UNCHANGED failed
       ELSE attempt' = 0 /\ failed' = TRUE /\ UNCHANGED network
    /\ UNCHANGED <<now, simulation, pending, queued, nextSequence, previousChain, stored>>

DropRequest ==
    /\ \E r \in requests : requests' = requests \ {r}
    /\ UNCHANGED <<now, simulation, recorder, answers, stored>>

(* The answer to the current attempt: a receipt for this chain moves the queue,
   anything else ends the recorder. *)
ReceiveReceipt(a) ==
    /\ IF a.ok /\ a.chain = Append(previousChain, queued[1].chunk)
       THEN /\ queued' = Tail(queued) /\ previousChain' = a.chain /\ failed' = failed
       ELSE /\ failed' = TRUE /\ UNCHANGED <<queued, previousChain>>
    /\ attempt' = 0 /\ answers' = {}
    /\ UNCHANGED <<now, simulation, pending, nextSequence, requests, stored>>

Receive == attempt > 0 /\ \E a \in answers : ReceiveReceipt(a)

-----------------------------------------------------------------------------
(* The server: appendRankedInputCommitment under the session's lock. *)

ChainThrough(n) == [i \in 1..n |-> stored[i].chunk]
Existing(r) == {i \in DOMAIN stored : stored[i].chunk.sequence = r.chunk.sequence}

(* assertCommitmentContinuity. *)
Continues(r) ==
    IF stored = <<>>
    THEN r.chunk.sequence = 0 /\ r.chunk.epoch = 0 /\ r.chunk.start = 0 /\ r.previous = <<>>
    ELSE LET last == stored[Len(stored)].chunk
         IN  /\ r.chunk.sequence = last.sequence + 1
             /\ r.previous = ChainThrough(Len(stored))
             /\ IF last.final THEN r.chunk.epoch = last.epoch + 1 /\ r.chunk.start = 0
                              ELSE r.chunk.epoch = last.epoch /\ r.chunk.start = last.end + 1

(* What the transaction answers. *)
Answer(r) ==
    LET same == {i \in Existing(r) : stored[i].chunk = r.chunk /\ ChainThrough(i - 1) = r.previous}
    IN  IF Existing(r) # {}
        THEN IF same # {} THEN [ok |-> TRUE, chain |-> ChainThrough(CHOOSE i \in same : TRUE)]
             ELSE [ok |-> FALSE, chain |-> <<>>]
        ELSE IF Continues(r) THEN [ok |-> TRUE, chain |-> Append(ChainThrough(Len(stored)), r.chunk)]
             ELSE [ok |-> FALSE, chain |-> <<>>]

(* A request is executed; its client may have given it up already. *)
Execute_Unkeyed(r) ==
    /\ requests' = requests \ {r}
    /\ stored' = Append(stored, [chunk |-> r.chunk, receivedAt |-> now])
    /\ answers' = IF r.attempt = attempt /\ queued # <<>> /\ r.chunk = queued[1].chunk
                  THEN {[ok |-> TRUE, chain |-> Append(r.previous, r.chunk)]} ELSE answers
    /\ UNCHANGED <<now, simulation, recorder>>

Execute(r) ==
    /\ requests' = requests \ {r}
    /\ stored' = IF Existing(r) = {} /\ Continues(r)
                 THEN Append(stored, [chunk |-> r.chunk, receivedAt |-> now]) ELSE stored
    /\ answers' = IF r.attempt = attempt /\ queued # <<>> /\ r.chunk = queued[1].chunk
                  THEN {Answer(r)} ELSE answers
    /\ UNCHANGED <<now, simulation, recorder>>

Serve == \E r \in requests : Execute(r)

-----------------------------------------------------------------------------
(* verifyRankedInputCommitmentCoverage, at settlement, against the proof's
   rounds. *)

Frames(chunk) == chunk.end - chunk.start + 1

(* The credit left after each commitment; negative when one outran the clock. *)
Credit_OneChunk(chain) ==
    LET available[i \in 0..Len(chain)] ==
            IF i = 0 THEN MaxFrames
            ELSE LET elapsed == IF i = 1 THEN 0 ELSE chain[i].receivedAt - chain[i - 1].receivedAt
                 IN  Min({MaxFrames, available[i - 1] + elapsed * Replenish}) - Frames(chain[i].chunk)
    IN  available

Credit(chain) ==
    LET available[i \in 0..Len(chain)] ==
            IF i = 0 THEN Burst
            ELSE LET elapsed == IF i = 1 THEN 0 ELSE chain[i].receivedAt - chain[i - 1].receivedAt
                 IN  Min({Burst, available[i - 1] + elapsed * Replenish}) - Frames(chain[i].chunk)
    IN  available

Covers(chain, proof) ==
    /\ chain # <<>>
    /\ \A i \in DOMAIN chain :
          LET c == chain[i].chunk
          IN  /\ c.sequence = i - 1
              /\ IF i = 1 THEN c.epoch = 0 /\ c.start = 0
                 ELSE LET last == chain[i - 1].chunk
                      IN  IF last.final THEN c.epoch = last.epoch + 1 /\ c.start = 0
                          ELSE c.epoch = last.epoch /\ c.start = last.end + 1
              /\ i > 1 => chain[i - 1].receivedAt <= chain[i].receivedAt
              /\ c.epoch + 1 \in DOMAIN proof
              /\ c.end < proof[c.epoch + 1]
              /\ c.final = (c.end = proof[c.epoch + 1] - 1)
    /\ LET last == chain[Len(chain)].chunk IN last.final /\ last.epoch + 1 = Len(proof)

(* The frames committed to, through each commitment. *)
Committed(chain) ==
    LET count[i \in 0..Len(chain)] == IF i = 0 THEN 0 ELSE count[i - 1] + Frames(chain[i].chunk)
    IN  count

(* The pace is credible if no commitment finds its credit overdrawn by more than
   the slack - the verifier allows for none - and if the whole chain took the
   time that its frames after the first commitment take. *)
CredibleWithin(chain, slack) ==
    LET n == Len(chain)
    IN  /\ \A i \in DOMAIN chain : Credit(chain)[i] + slack >= 0
        /\ n > 1
        /\ (chain[n].receivedAt - chain[1].receivedAt) * Replenish
              >= Committed(chain)[n] - Frames(chain[1].chunk)

Next ==
    \/ SimulateFrame \/ Tick \/ Confirm \/ EndRound
    \/ Submit \/ LoseAttempt \/ DropRequest \/ Receive
    \/ Serve

(* The drain goes on and the server executes what reaches it. *)
Spec == Init /\ [][Next]_vars
FairSpec == Spec /\ WF_vars(Submit) /\ WF_vars(Receive) /\ WF_vars(LoseAttempt)

-----------------------------------------------------------------------------
ChunkRecords ==
    [sequence : Nat, epoch : 0..(Rounds - 1), start : 0..LastFrame, end : 0..LastFrame, final : BOOLEAN]

(* Types; a round's tail continues the sealed chunks up to the next frame. *)
TypeOK ==
    /\ now \in Nat /\ delay \in 0..Max({Transition, 1}) /\ waits \in 0..MaxWaits
    /\ frame \in 0..LastFrame /\ mutual \in -1..(frame - 1) /\ archived \in -1..mutual
    /\ pending # None => /\ pending.epoch = Len(lengths)
                         /\ pending.start + pending.inputs = frame
    /\ \A i \in DOMAIN queued : /\ queued[i].chunk \in ChunkRecords
                              /\ queued[i].chunk.sequence = Len(previousChain) + i - 1
    /\ nextSequence = Len(previousChain) + Len(queued)
    /\ attempt \in 0..MaxAttempts /\ failed \in BOOLEAN
    /\ \A i \in DOMAIN stored : stored[i].chunk \in ChunkRecords /\ stored[i].receivedAt \in 0..now

(* A sealed chunk cannot be taken back, so none is sealed that a late correction
   could cut: whichever frame both sides agree to end the round at, it is still
   in the open tail (finalizeRound's "correction reached committed frame" is
   never raised), and the tail never outgrows what the verifier's burst lets a
   client submit at once. *)
TailStaysOpen ==
    pending # None =>
        /\ \A f \in FinalFrames : f >= pending.start
        /\ pending.inputs <= Burst

(* The server's chain never forks from the recorder's, whatever is lost, retried
   or arrives late: it is the acknowledged chain, or that and the one chunk
   being submitted; and every answer the recorder waits for is its receipt. *)
ChainNeverForks ==
    /\ ChainThrough(Len(stored)) \in
          {previousChain} \cup (IF queued = <<>> THEN {} ELSE {Append(previousChain, queued[1].chunk)})
    /\ \A a \in answers : a.ok /\ a.chain = Append(previousChain, queued[1].chunk)

Flushed == pending = None /\ queued = <<>> /\ ~failed

(* Once the match is over and the queue is flushed, the stored chain of an honest
   client covers every frame and every round boundary of the proof and took as
   long as the verifier asks, however late its chunks were; and it overdraws the
   verifier's credit by no more than the frames that a chunk may be late. *)
EvidenceWithinLag == Flushed => Covers(stored, lengths) /\ CredibleWithin(stored, MaxLag)

(* The verifier itself, which allows for no slack, accepts the evidence
   (docs/ONLINE_ALPHA_READINESS.md: legitimate round-final flushing remains
   valid).  True of chunks that are never late; a late chunk finds the credit
   saturated while it waited, and the end of its round arrives behind it. *)
EvidenceAccepted == Flushed => Covers(stored, lengths) /\ CredibleWithin(stored, 0)

(* Every sealed chunk is eventually acknowledged, unless the recorder has run
   out of attempts: flush returns. *)
FlushEnds == (queued # <<>>) ~> (queued = <<>> \/ failed)
=============================================================================
