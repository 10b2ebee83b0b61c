-------------------------- MODULE CheckInRefinement --------------------------
(***************************************************************************)
(* CheckIn implements the two abstract specifications of what a display    *)
(* may rely on.                                                            *)
(***************************************************************************)
EXTENDS CheckIn

\* What survives is on the disk; the rest is what the display and the
\* network have.
Queue == INSTANCE CommandQueue WITH
    Commands <- 1..MaxCommands,
    stored <- Ids(disk.pending_commands),
    held <- device.accepted,
    acknowledged <- UNION {request.acks : request \in sent},
    confirmed <- device.forgotten

Register == INSTANCE RevisionRegister WITH
    Values <- Desired,
    desired <- [revision |-> rec.desired_revision, values |-> rec.desired],
    active <- [revision |-> device.revision, values |-> device.values]

\* PROTOCOL.md, "This avoids losing a command when a response or display
\* refresh fails": through lost and repeated requests, overlapping handlers
\* and restarts the display sees the queue of CommandQueue.
ImplementsQueue == Queue!Spec

\* PROTOCOL.md, "desired configuration with its monotonically increasing
\* revision": the display sees the register of RevisionRegister.  A restart
\* takes back only revisions the display has not seen.
ImplementsRegister == Register!Spec
=============================================================================
