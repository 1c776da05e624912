-------------------------- MODULE ValidatedClient --------------------------
(***************************************************************************)
(* The client that checks the chain id before its first use                *)
(* (validatedCombinedClient in relayer/sdk/combined_client.go): validate   *)
(* with its double-checked lock, and the methods that call it before they  *)
(* hand a request to the wrapped client.  Every caller is a goroutine.     *)
(* SolidityClient and FullNodeClient hand out the wrapped clients, which   *)
(* nothing gates: what is asked through them is no step of this module.    *)
(* What the genesis query answers may differ between queries: the endpoint *)
(* may be several nodes.                                                   *)
(***************************************************************************)
EXTENDS Naturals

CONSTANTS Callers,      \* the goroutines that use the client
          Answers,      \* what the genesis query may answer
          Nil

GenesisAnswers == {"match",      \* the configured chain id
                   "mismatch",   \* another chain id
                   "unparsable", \* no hexadecimal number
                   "short",      \* a block id of fewer than 8 characters
                   "fail"}       \* the query fails

ASSUME ClientAssumption ==
    /\ Answers \subseteq GenesisAnswers
    /\ Nil \notin Callers

VARIABLES pc,        \* where each caller is
          writer,    \* the caller that holds mu for writing
          done, err, \* fields of the client; err: TRUE if there is an error
          genesis,   \* history: the last answer of the genesis query
          sent,      \* history: a method has forwarded a request
          crashed    \* the process has panicked

clientVars == <<pc, writer, done, err, genesis, sent, crashed>>

ClientTypeOK ==
    /\ pc \in [Callers -> {"idle", "check", "lock", "query", "forward"}]
    /\ writer \in Callers \cup {Nil}
    /\ done \in BOOLEAN
    /\ err \in BOOLEAN
    /\ genesis \in GenesisAnswers \cup {"none"}
    /\ sent \in BOOLEAN
    /\ crashed \in BOOLEAN

\* NewValidatedCombinedClient
ClientInit ==
    /\ pc = [c \in Callers |-> "idle"]
    /\ writer = Nil
    /\ done = FALSE
    /\ err = FALSE
    /\ genesis = "none"
    /\ sent = FALSE
    /\ crashed = FALSE

At(c, p) == ~crashed /\ pc[c] = p
Goto(c, p) == pc' = [pc EXCEPT ![c] = p]

\* validate returns: the method forwards the request or returns the error.
ValidateReturns(c, failed) == Goto(c, IF failed THEN "idle" ELSE "forward")

\* A method of the client is called.
Call(c) ==
    /\ At(c, "idle")
    /\ Goto(c, "check")
    /\ UNCHANGED <<writer, done, err, genesis, sent, crashed>>

\* The first check, under the read lock.
CheckDone(c) ==
    /\ At(c, "check")
    /\ writer = Nil
    /\ IF done THEN ValidateReturns(c, err) ELSE Goto(c, "lock")
    /\ UNCHANGED <<writer, done, err, genesis, sent, crashed>>

\* Mutant: done is not tested again under the write lock.
LockUnchecked(c) ==
    /\ At(c, "lock")
    /\ writer = Nil
    /\ Goto(c, "query")
    /\ writer' = c
    /\ UNCHANGED <<done, err, genesis, sent, crashed>>

\* The second check, under the write lock; it is released on return.
Lock(c) ==
    /\ At(c, "lock")
    /\ writer = Nil
    /\ IF done THEN ValidateReturns(c, err) /\ UNCHANGED writer
               ELSE Goto(c, "query") /\ writer' = c
    /\ UNCHANGED <<done, err, genesis, sent, crashed>>

\* Mutant: the lock is not released.
QueryFailsLocked(c) ==
    /\ At(c, "query")
    /\ "fail" \in Answers
    /\ genesis' = "fail"
    /\ ValidateReturns(c, TRUE)
    /\ UNCHANGED <<writer, done, err, sent, crashed>>

\* The genesis query fails: the caller gets the error, the next one asks again.
QueryFails(c) ==
    /\ At(c, "query")
    /\ "fail" \in Answers
    /\ genesis' = "fail"
    /\ writer' = Nil
    /\ ValidateReturns(c, TRUE)
    /\ UNCHANGED <<done, err, sent, crashed>>

\* Mutant: an answer that cannot be parsed is no error.
QueryAnsweredParsed(c) ==
    /\ At(c, "query")
    /\ \E a \in Answers \ {"fail"} :
          /\ genesis' = a
          /\ err' = (a = "mismatch")
          /\ crashed' = (a = "short")
          /\ ValidateReturns(c, err')
    /\ done' = TRUE
    /\ writer' = Nil
    /\ UNCHANGED sent

\* The answer decides once and for all, except that cutting the last 8
\* characters off a shorter block id panics.
QueryAnswered(c) ==
    /\ At(c, "query")
    /\ \E a \in Answers \ {"fail"} :
          /\ genesis' = a
          /\ err' = (a \in {"mismatch", "unparsable"})
          /\ crashed' = (a = "short")
          /\ ValidateReturns(c, a # "match")
    /\ done' = TRUE
    /\ writer' = Nil
    /\ UNCHANGED sent

Forward(c) ==
    /\ At(c, "forward")
    /\ sent' = TRUE
    /\ Goto(c, "idle")
    /\ UNCHANGED <<writer, done, err, genesis, crashed>>

\* The answer of the wrapped client makes its caller panic.
ForwardPanics(c) ==
    /\ At(c, "forward")
    /\ sent' = TRUE
    /\ crashed' = TRUE
    /\ Goto(c, "idle")
    /\ UNCHANGED <<writer, done, err, genesis>>

validate(c) == CheckDone(c) \/ Lock(c) \/ QueryFails(c) \/ QueryAnswered(c)

ClientNext == \E c \in Callers : Call(c) \/ validate(c) \/ Forward(c) \/ ForwardPanics(c)

ClientSpec == ClientInit /\ [][ClientNext]_clientVars
-----------------------------------------------------------------------------
\* No method forwards a request to the wrapped client unless the genesis block carried the
\* configured chain id, whoever asked for it and whatever failed before.
GatedByChainId == sent \/ (\E c \in Callers : pc[c] = "forward") => genesis = "match"

\* One answer of a node decides for the life of the client: no later query, of a
\* caller that had seen done = FALSE, overrides it.
VerdictSticky ==
    [][genesis \notin {"none", "fail"} => UNCHANGED <<genesis, done, err>>]_clientVars

\* Every call returns, although all callers wait while one queries the node.
CallsReturn == \A c \in Callers : pc[c] # "idle" ~> (pc[c] = "idle" \/ crashed)
=============================================================================
