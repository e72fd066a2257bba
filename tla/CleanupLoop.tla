---------------------------- MODULE CleanupLoop ----------------------------
(***************************************************************************)
(* StartCleanupLoop of clockwork.go over an InMemoryStorage that request   *)
(* goroutines are writing to: a ticker whose channel holds one tick, a     *)
(* select between that tick and a stop channel, and a Cleanup per tick.    *)
(***************************************************************************)
EXTENDS InMemoryStorage

CONSTANTS
    Loop,           \* the goroutine that runs the loop, one of Procs
    Interval,       \* config.CleanupInterval, positive after Config.Normalize
    Retention       \* config.RequestRetentionTime, likewise

ASSUME LoopAssumption == Loop \in Procs
ASSUME PeriodAssumption == Interval \in Nat \ {0} /\ Retention \in Ages \ {0}

VARIABLES
    tick,           \* ticks in the ticker's channel, which holds one
    stop,           \* the stop channel is closed
    running         \* runCleanup has not returned

loopState == <<tick, stop, running>>
loopVars == <<vars, loopState>>

LoopInit == Init /\ tick = 0 /\ stop = FALSE /\ running = TRUE

\* The loop is at its select whenever no Cleanup of its own is in progress.
AtSelect == running /\ call[Loop] = Idle

TakeTick_Returns ==
    /\ AtSelect
    /\ tick = 1
    /\ tick' = 0
    /\ BeginCleanup(Loop, Retention)
    /\ running' = FALSE
    /\ UNCHANGED stop

TakeTick ==
    /\ AtSelect
    /\ tick = 1
    /\ tick' = 0
    /\ BeginCleanup(Loop, Retention)
    /\ UNCHANGED <<stop, running>>

TakeStop_TickFirst ==
    /\ AtSelect
    /\ stop
    /\ tick = 0
    /\ running' = FALSE
    /\ UNCHANGED <<vars, tick, stop>>

\* Returning from runCleanup also stops the ticker.
TakeStop ==
    /\ AtSelect
    /\ stop
    /\ running' = FALSE
    /\ UNCHANGED <<vars, tick, stop>>

\* The program that owns the loop asks it to end.
CloseStop ==
    /\ ~stop
    /\ stop' = TRUE
    /\ UNCHANGED <<vars, tick, running>>

\* A tick that finds the channel full is dropped.
SendTick == tick' = 1

\* The clock, with the ticker on it until the loop has returned.  At the bound
\* MaxTime the clock saturates and the ticker goes on.
ClockAdvances ==
    \/ /\ Tick
       /\ IF running /\ now' % Interval = 0 THEN SendTick ELSE UNCHANGED tick
       /\ UNCHANGED <<stop, running>>
    \/ /\ now = MaxTime
       /\ running
       /\ SendTick
       /\ UNCHANGED <<vars, stop, running>>

LoopStep(p) == Step(p) /\ UNCHANGED loopState

LoopNext ==
    \/ TakeTick \/ TakeStop \/ CloseStop \/ ClockAdvances
    \/ \E p \in Procs : LoopStep(p)
    \/ \E p \in Procs \ {Loop}, id \in Ids, bytes \in Sizes :
        BeginStore(p, id, bytes) /\ UNCHANGED loopState

\* A goroutine that has begun a call keeps running; sync.RWMutex does not starve
\* a writer, so waiting for mu gets strong fairness.
\* Go's select chooses at random among the channels that are ready, so a loop
\* that keeps coming back to it takes the stop in the end: strong fairness.
LoopFairness ==
    /\ WF_loopVars(TakeTick \/ TakeStop)
    /\ SF_loopVars(TakeStop)
    /\ WF_loopVars(ClockAdvances)
    /\ \A p \in Procs :
        /\ SF_loopVars(LoopStep(p) /\ mu = Nobody)
        /\ WF_loopVars(LoopStep(p) /\ mu = p)

LoopSpec == LoopInit /\ [][LoopNext]_loopVars
FairLoopSpec == LoopSpec /\ LoopFairness

-----------------------------------------------------------------------------
(* Properties *)

\* Closing the stop channel ends the loop, even if it is closed during a
\* Cleanup and ticks keep arriving.
StopEndsLoop == stop ~> ~running

\* Unless the loop is stopped, an entry that outlives the retention time is
\* removed although ticks are dropped and cutoffs go stale while waiting for
\* the lock.  The entry must expire early enough for a tick within MaxTime.
ExpiredIsRemoved ==
    \A id \in Ids, t \in 0..MaxTime :
        t + Retention + Interval <= MaxTime =>
            (byID[id] # NoEntry /\ byID[id].createdAt = t)
                ~> (stop \/ byID[id] = NoEntry \/ byID[id].createdAt # t)

\* Every call returns: no goroutine, the loop's included, keeps the lock of the
\* storage or waits for it forever.
CallsReturn == \A p \in Procs : call[p] # Idle ~> call[p] = Idle
=============================================================================
