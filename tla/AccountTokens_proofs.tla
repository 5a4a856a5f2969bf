------------------------- MODULE AccountTokens_proofs -------------------------
(***************************************************************************)
(* What holds of an ad account's connection for any number of jobs,         *)
(* consents, secrets, administrators and crashes.                          *)
(***************************************************************************)
EXTENDS AccountTokens, ProviderConfigs_proofs

USE BoundsAreNaturals, NoneIsNoRow

-----------------------------------------------------------------------------
(* The jobs use the provider configuration as any caller does *)

LEMMA ConfigStep == [Next]_vars => [ConfigNext]_configVars
<1> SUFFICES ASSUME [Next]_vars PROVE [ConfigNext]_configVars
  OBVIOUS
<1> USE DEF configVars
<1>1. ASSUME NEW j \in Jobs, JobStep(j) PROVE [ConfigNext]_configVars
  <2>1. CASE ConfigLookup(j) \/ ConfigSettle(j)
    BY <2>1 DEF ConfigLookup, ConfigSettle, ConfigNext
  <2>2. CASE Refused(j)
    BY <2>2 DEF Refused, LetGo, ConfigNext
  <2>3. CASE Granted(j) \/ Rejected(j) \/ Empty(j) \/ Transient(j) \/ Consented(j)
    <3>1. LetGo(j)
      BY <2>3 DEF Granted, Rejected, Empty, Transient, Consented, Asked, LetGo
    <3>2. QED
      BY <3>1 DEF ConfigNext
  <2>4. CASE SweepLoad(j) \/ SyncLoad(j) \/ CallbackLoad(j)
    BY <2>4 DEF SweepLoad, SyncLoad, CallbackLoad
  <2>5. CASE WriteTokens(j) \/ UpsertAccount(j) \/ MarkError(j) \/ Fetch(j) \/ SyncFinish(j)
    BY <2>5 DEF WriteTokens, UpsertAccount, MarkError, Fetch, SyncFinish
  <2>6. QED
    BY <1>1, <2>1, <2>2, <2>3, <2>4, <2>5 DEF JobStep
<1>2. CASE Connect \/ Disconnect \/ SetTracked \/ TokenFallsDue \/ Revoke \/ RotateAppSecret
  BY <1>2 DEF Connect, Disconnect, SetTracked, TokenFallsDue, Revoke, RotateAppSecret
<1>3. CASE AdminWrite \/ CacheTimeout \/ Crash
  BY <1>3 DEF AdminWrite, CacheTimeout, Crash, ConfigNext
<1>4. CASE UNCHANGED vars
  BY <1>4 DEF vars
<1>5. QED
  BY <1>1, <1>2, <1>3, <1>4 DEF Next

\* The composed system implements the provider configuration service: every
\* step is a step of it or leaves its state alone.
THEOREM UsesProviderConfigs == Spec => ConfigSpec
<1>1. Init => ConfigInit
  BY DEF Init
<1>2. QED
  BY <1>1, ConfigStep, PTL DEF Spec, ConfigSpec

\* So the cache is current here as well.
THEOREM CacheCorrectInUse == Spec => []CacheIsCurrent
  BY UsesProviderConfigs, CacheCorrect, PTL

-----------------------------------------------------------------------------
(* The invariant about tokens *)

TokenTypeOK ==
  /\ acct \in Accounts \cup {None}
  /\ job \in [Jobs -> JobStates]
  /\ appSecret \in Secrets
  /\ latest \in [Grants -> 0..MaxSerial]
  /\ revoked \in SUBSET Grants
  /\ lost \in SUBSET Grants
  /\ crashes \in 0..MaxCrashes

\* A token a job has been answered with is the last of its grant, and nobody
\* else has it or another one of that grant: so no other job can make the
\* platform rotate it before it is written.
HeldIsLatest ==
  \A j \in Jobs : job[j].new # None => job[j].new.serial = latest[job[j].new.grant]
HeldIsNowhereElse ==
  \A j \in Jobs : job[j].new # None =>
    /\ acct # None => acct.refresh # job[j].new
    /\ \A k \in Jobs : job[k].tok # job[j].new
OneHolder ==
  \A j, k \in Jobs :
    j # k /\ job[j].new # None /\ job[k].new # None => job[j].new.grant # job[k].new.grant

\* Tokens in use have been issued.
SeenIsIssued ==
  /\ acct # None /\ acct.refresh # None => acct.refresh.serial <= latest[acct.refresh.grant]
  /\ \A j \in Jobs : job[j].tok # None => job[j].tok.serial <= latest[job[j].tok.grant]

\* Where a job can be: only a job about to write holds a new token, and only
\* callbacks run before there is a row.
JobFits(x) ==
  /\ x.new # None => x.pc = "write"
  /\ x.kind = "callback" => x.pc \in {"config", "write"} /\ x.tok = None
  /\ x.pc # "idle" /\ x.kind # "callback" => acct # None
JobsFit == \A j \in Jobs : JobFits(job[j])

TokenInv ==
  /\ TokenTypeOK /\ HeldIsLatest /\ HeldIsNowhereElse /\ OneHolder
  /\ SeenIsIssued /\ JobsFit /\ StoredTokenWorks

LEMMA TokenInvInit == Init => TokenInv
<1>1. NoJob \in JobStates /\ NoJob.tok = None /\ NoJob.new = None /\ NoJob.pc = "idle" /\ NoJob.kind = "none"
  BY DEF NoJob, JobStates
<1>2. QED
  BY <1>1 DEF Init, TokenInv, TokenTypeOK, HeldIsLatest, HeldIsNowhereElse, OneHolder,
              SeenIsIssued, JobsFit, JobFits, StoredTokenWorks

-----------------------------------------------------------------------------
(* The shapes a step can have *)

\* A job that holds no new token moves, perhaps taking the row's token along.
LEMMA MoveKeeps ==
  ASSUME TokenInv, NEW j \in Jobs, NEW x \in JobStates,
         job[j].new = None, x.new = None,
         x.tok = None \/ x.tok = job[j].tok \/ (acct # None /\ x.tok = acct.refresh),
         JobFits(x), job' = [job EXCEPT ![j] = x],
         UNCHANGED <<acct, platform, lost, crashes>>
  PROVE  TokenInv'
<1> USE DEF platform
<1>1. \A k \in Jobs : job'[k] = IF k = j THEN x ELSE job[k]
  BY DEF TokenInv, TokenTypeOK
<1>2. TokenTypeOK'
  BY DEF TokenInv, TokenTypeOK
<1>3. HeldIsLatest' /\ OneHolder'
  BY <1>1 DEF TokenInv, HeldIsLatest, OneHolder
<1>4. HeldIsNowhereElse'
  BY <1>1 DEF TokenInv, HeldIsNowhereElse
<1>5. SeenIsIssued'
  BY <1>1 DEF TokenInv, SeenIsIssued
<1>6. JobsFit'
  BY <1>1 DEF TokenInv, JobsFit, JobFits
<1>7. StoredTokenWorks'
  BY <1>1 DEF TokenInv, StoredTokenWorks, Usable
<1>8. QED
  BY <1>2, <1>3, <1>4, <1>5, <1>6, <1>7 DEF TokenInv

\* A grant with a usable token in sight has no token in the hands of a job.
LEMMA UsableIsUnheld ==
  ASSUME TokenInv, NEW t \in Tokens, Usable(t), NEW k \in Jobs, job[k].new # None,
         NEW j \in Jobs, job[j].tok = t
  PROVE  job[k].new.grant # t.grant
<1> SUFFICES ASSUME job[k].new.grant = t.grant PROVE FALSE
  OBVIOUS
<1>1. job[k].new \in Tokens
  BY DEF TokenInv, TokenTypeOK, JobStates
<1>2. job[k].new.serial = t.serial
  BY DEF TokenInv, HeldIsLatest, Usable
<1>3. job[k].new = t
  BY <1>1, <1>2 DEF Tokens
<1>4. QED
  BY <1>3 DEF TokenInv, HeldIsNowhereElse

\* The platform issues the next token of a grant nobody holds a token of, and
\* job j is answered with it.
LEMMA IssueKeeps ==
  ASSUME TokenInv, NEW j \in Jobs, NEW g \in Grants, NEW x \in JobStates,
         latest[g] < MaxSerial, job[j].new = None,
         \A k \in Jobs : job[k].new # None => job[k].new.grant # g,
         x.new = [grant |-> g, serial |-> latest[g] + 1], x.tok = None, JobFits(x),
         job' = [job EXCEPT ![j] = x], Issue(g),
         UNCHANGED <<acct, appSecret, revoked, lost, crashes>>
  PROVE  TokenInv'
<1>0. latest[g] \in Nat /\ latest[g] + 1 \in 1..MaxSerial
  BY DEF TokenInv, TokenTypeOK
<1>1. x.new \in Tokens /\ x.new # None /\ x.new.grant = g /\ x.new.serial = latest[g] + 1
  BY <1>0 DEF Tokens
<1>2. \A k \in Jobs : job'[k] = IF k = j THEN x ELSE job[k]
  BY DEF TokenInv, TokenTypeOK
<1>3. latest' \in [Grants -> 0..MaxSerial]
  BY <1>0 DEF TokenInv, TokenTypeOK, Issue
<1>4. \A h \in Grants : latest'[h] = IF h = g THEN latest[g] + 1 ELSE latest[h]
  BY DEF TokenInv, TokenTypeOK, Issue
<1>5. TokenTypeOK'
  BY <1>3 DEF TokenInv, TokenTypeOK
<1>6. \A k \in Jobs : /\ job[k].new # None => job[k].new \in Tokens
                      /\ job[k].tok # None => job[k].tok \in Tokens
  BY DEF TokenInv, TokenTypeOK, JobStates
<1>7. acct # None /\ acct.refresh # None => acct.refresh \in Tokens
  BY DEF TokenInv, TokenTypeOK, Accounts
<1>8. \A t \in Tokens : t.grant \in Grants /\ t.serial \in Nat
  BY DEF Tokens
<1>9. HeldIsLatest'
  BY <1>1, <1>2, <1>4, <1>6, <1>8 DEF TokenInv, HeldIsLatest
<1>10. OneHolder'
  BY <1>1, <1>2 DEF TokenInv, OneHolder
<1>11. \A t \in Tokens : t.serial <= latest[t.grant] => t # x.new /\ t.serial <= latest'[t.grant]
  <2> SUFFICES ASSUME NEW t \in Tokens, t.serial <= latest[t.grant]
               PROVE  t # x.new /\ t.serial <= latest'[t.grant]
    OBVIOUS
  <2>1. t.grant \in Grants /\ t.serial \in Nat /\ latest[t.grant] \in Nat
    BY <1>8 DEF TokenInv, TokenTypeOK
  <2>2. QED
    BY <2>1, <1>0, <1>1, <1>4
<1>12. SeenIsIssued'
  BY <1>2, <1>6, <1>7, <1>11 DEF TokenInv, SeenIsIssued
<1>13. HeldIsNowhereElse'
  <2>1. acct # None => acct.refresh # x.new
    BY <1>1, <1>7, <1>11 DEF TokenInv, SeenIsIssued
  <2>2. \A k \in Jobs : job'[k].tok # x.new
    BY <1>1, <1>2, <1>6, <1>11 DEF TokenInv, SeenIsIssued
  <2>3. QED
    BY <1>2, <2>1, <2>2 DEF TokenInv, HeldIsNowhereElse
<1>14. JobsFit'
  BY <1>2 DEF TokenInv, JobsFit, JobFits
<1>15. StoredTokenWorks'
  BY <1>1, <1>2, <1>4, <1>7, <1>8 DEF TokenInv, StoredTokenWorks, Usable
<1>16. QED
  BY <1>5, <1>9, <1>10, <1>12, <1>13, <1>14, <1>15 DEF TokenInv

\* The platform issues a token whose answer is lost on its way to job j.
LEMMA LoseKeeps ==
  ASSUME TokenInv, NEW j \in Jobs, NEW g \in Grants, NEW x \in JobStates,
         latest[g] < MaxSerial, job[j].new = None,
         \A k \in Jobs : job[k].new # None => job[k].new.grant # g,
         x.new = None, x.tok = None, JobFits(x), job' = [job EXCEPT ![j] = x],
         Issue(g), lost' = lost \cup {g},
         UNCHANGED <<acct, appSecret, revoked, crashes>>
  PROVE  TokenInv'
<1>0. latest[g] \in Nat /\ latest[g] + 1 \in 0..MaxSerial
  BY DEF TokenInv, TokenTypeOK
<1>1. latest' \in [Grants -> 0..MaxSerial]
  BY <1>0 DEF TokenInv, TokenTypeOK, Issue
<1>2. \A h \in Grants : latest'[h] = IF h = g THEN latest[g] + 1 ELSE latest[h]
  BY DEF TokenInv, TokenTypeOK, Issue
<1>a. \A k \in Jobs : job'[k] = IF k = j THEN x ELSE job[k]
  BY DEF TokenInv, TokenTypeOK
<1>3. TokenTypeOK'
  BY <1>1 DEF TokenInv, TokenTypeOK
<1>4. \A k \in Jobs : /\ job[k].new # None => job[k].new \in Tokens
                      /\ job[k].tok # None => job[k].tok \in Tokens
  BY DEF TokenInv, TokenTypeOK, JobStates
<1>5. acct # None /\ acct.refresh # None => acct.refresh \in Tokens
  BY DEF TokenInv, TokenTypeOK, Accounts
<1>6. \A t \in Tokens : t.grant \in Grants /\ t.serial \in Nat
  BY DEF Tokens
<1>7. \A t \in Tokens : t.serial <= latest[t.grant] => t.serial <= latest'[t.grant]
  <2> SUFFICES ASSUME NEW t \in Tokens, t.serial <= latest[t.grant]
               PROVE  t.serial <= latest'[t.grant]
    OBVIOUS
  <2>1. t.grant \in Grants /\ t.serial \in Nat /\ latest[t.grant] \in Nat
    BY <1>6 DEF TokenInv, TokenTypeOK
  <2>2. QED
    BY <2>1, <1>2
<1>8. SeenIsIssued'
  BY <1>a, <1>4, <1>5, <1>7 DEF TokenInv, SeenIsIssued
<1>9. HeldIsLatest' /\ HeldIsNowhereElse' /\ OneHolder' /\ JobsFit'
  BY <1>a, <1>2, <1>4, <1>6 DEF TokenInv, HeldIsLatest, HeldIsNowhereElse, OneHolder, JobsFit, JobFits
<1>10. StoredTokenWorks'
  BY <1>a, <1>2, <1>5, <1>6 DEF TokenInv, StoredTokenWorks, Usable
<1>11. QED
  BY <1>3, <1>8, <1>9, <1>10 DEF TokenInv

\* Job j writes the row and holds nothing from then on: its new token, or the
\* token the row has now.
LEMMA RowKeeps ==
  ASSUME TokenInv, NEW j \in Jobs, NEW x \in JobStates, NEW y \in Accounts,
         \/ y.refresh = job[j].new
         \/ acct # None /\ y.refresh = acct.refresh /\ job[j].new = None,
         x.new = None, x.tok = None, JobFits(x)', 
         acct' = y, job' = [job EXCEPT ![j] = x], UNCHANGED <<platform, lost, crashes>>
  PROVE  TokenInv'
<1> USE DEF platform
<1>1. \A k \in Jobs : job'[k] = IF k = j THEN x ELSE job[k]
  BY DEF TokenInv, TokenTypeOK
<1>2. TokenTypeOK'
  BY DEF TokenInv, TokenTypeOK
<1>3. HeldIsLatest' /\ OneHolder'
  BY <1>1 DEF TokenInv, HeldIsLatest, OneHolder
<1>4. \A k \in Jobs \ {j} : job[k].new # None => y.refresh # job[k].new
  <2>1. CASE y.refresh = job[j].new
    BY <2>1 DEF TokenInv, OneHolder
  <2>2. CASE acct # None /\ y.refresh = acct.refresh
    BY <2>2 DEF TokenInv, HeldIsNowhereElse
  <2>3. QED
    BY <2>1, <2>2
<1>5. HeldIsNowhereElse'
  BY <1>1, <1>4 DEF TokenInv, HeldIsNowhereElse
<1>6. y.refresh # None => y.refresh \in Tokens
  BY DEF Accounts
<1>7. y.refresh = job[j].new /\ y.refresh # None => y.refresh.serial = latest[y.refresh.grant]
  BY DEF TokenInv, HeldIsLatest
<1>8. y.refresh # None => y.refresh.serial \in Nat /\ y.refresh.grant \in Grants
  BY <1>6 DEF Tokens
<1>9. SeenIsIssued'
  <2>1. y.refresh # None => y.refresh.serial <= latest[y.refresh.grant]
    BY <1>7, <1>8 DEF TokenInv, SeenIsIssued
  <2>2. QED
    BY <1>1, <2>1 DEF TokenInv, SeenIsIssued
<1>10. JobsFit'
  BY <1>1 DEF TokenInv, JobsFit, JobFits
<1>11. StoredTokenWorks'
  BY <1>1, <1>7 DEF TokenInv, StoredTokenWorks, Usable
<1>12. QED
  BY <1>2, <1>3, <1>5, <1>9, <1>10, <1>11 DEF TokenInv

\* Flags of the row change, its token does not; or the user takes grants back.
LEMMA FlagsKeep ==
  ASSUME TokenInv, acct = None <=> acct' = None, acct' \in Accounts \cup {None},
         acct # None => acct'.refresh = acct.refresh,
         revoked \subseteq revoked', revoked' \in SUBSET Grants, appSecret' \in Secrets,
         UNCHANGED <<job, latest, lost, crashes>>
  PROVE  TokenInv'
<1>1. TokenTypeOK'
  BY DEF TokenInv, TokenTypeOK
<1>2. HeldIsLatest' /\ HeldIsNowhereElse' /\ OneHolder' /\ SeenIsIssued' /\ JobsFit'
  BY DEF TokenInv, HeldIsLatest, HeldIsNowhereElse, OneHolder, SeenIsIssued, JobsFit, JobFits
<1>3. StoredTokenWorks'
  BY DEF TokenInv, StoredTokenWorks, Usable
<1>4. QED
  BY <1>1, <1>2, <1>3 DEF TokenInv

-----------------------------------------------------------------------------
(* The actions *)

LEMMA StatesOfJobs ==
  /\ NoJob \in JobStates /\ NoJob.new = None /\ NoJob.tok = None
  /\ NoJob.pc = "idle" /\ NoJob.kind = "none"
  /\ \A k \in {"sync", "callback"}, c \in {"config", "fetch"} :
       LET x == [NoJob EXCEPT !.kind = k, !.pc = c] IN
       x \in JobStates /\ x.new = None /\ x.tok = None /\ x.kind = k /\ x.pc = c
  BY DEF NoJob, JobStates

LEMMA JobsUpdate ==
  ASSUME NEW x \in JobStates, NEW n \in Tokens \cup {None}, NEW c \in {"write", "flag", "finish"}
  PROVE  /\ [x EXCEPT !.pc = c, !.tok = None, !.new = n] \in JobStates
         /\ [x EXCEPT !.pc = c, !.new = n] \in JobStates
         /\ [x EXCEPT !.pc = c, !.tok = None] \in JobStates
         /\ [x EXCEPT !.pc = c] \in JobStates
  BY DEF JobStates

\* What RefreshOver leaves job j as.
After(j) == IF job[j].kind = "sync" THEN [NoJob EXCEPT !.kind = "sync", !.pc = "fetch"] ELSE NoJob

LEMMA AfterIsIdle ==
  ASSUME TokenInv, NEW j \in Jobs, job[j].pc # "idle"
  PROVE  /\ After(j) \in JobStates /\ After(j).new = None /\ After(j).tok = None
         /\ JobFits(After(j))
         /\ RefreshOver(j) => job' = [job EXCEPT ![j] = After(j)]
  BY StatesOfJobs DEF After, RefreshOver, JobFits, TokenInv, JobsFit

LEMMA LoadKeeps ==
  ASSUME TokenInv, NEW j \in Jobs, SweepLoad(j) \/ SyncLoad(j) \/ CallbackLoad(j) PROVE TokenInv'
<1>0. job[j].new = None /\ UNCHANGED <<acct, platform, lost, crashes>>
  BY DEF SweepLoad, SyncLoad, CallbackLoad, TokenInv, JobsFit, JobFits
<1>1. ASSUME NEW kind \in {"sweep", "sync"}, Refresh(j, kind), acct # None PROVE TokenInv'
  <2> DEFINE x == [kind |-> kind, tok |-> acct.refresh, new |-> None,
                   pc |-> IF acct.refresh = None THEN "flag" ELSE "config"]
  <2>1. x \in JobStates
    BY <1>1 DEF JobStates, TokenInv, TokenTypeOK, Accounts
  <2>2. x.new = None /\ x.tok = acct.refresh /\ JobFits(x) /\ job' = [job EXCEPT ![j] = x]
    BY <1>1 DEF Refresh, JobFits
  <2> HIDE DEF x
  <2>3. QED
    BY <1>0, <1>1, <2>1, <2>2, MoveKeeps
<1>2. ASSUME NEW x \in JobStates, x.new = None, x.tok = None, JobFits(x),
             job' = [job EXCEPT ![j] = x]
      PROVE  TokenInv'
  BY <1>0, <1>2, MoveKeeps
<1>3. CASE SweepLoad(j)
  BY <1>1, <1>3 DEF SweepLoad, Live
<1>4. CASE SyncLoad(j)
  <2>1. CASE acct.due
    BY <1>1, <1>4, <2>1 DEF SyncLoad, Live
  <2>2. CASE ~acct.due
    BY <1>2, <1>4, <2>2, StatesOfJobs DEF SyncLoad, Live, JobFits
  <2>3. QED
    BY <2>1, <2>2
<1>5. CASE CallbackLoad(j)
  BY <1>2, <1>5, StatesOfJobs DEF CallbackLoad, JobFits
<1>6. QED
  BY <1>3, <1>4, <1>5

\* A job that asked the platform holds no new token yet.
LEMMA AskedHoldsNothing ==
  ASSUME TokenInv, NEW j \in Jobs, job[j].pc = "config" PROVE job[j].new = None
  BY DEF TokenInv, JobsFit, JobFits

LEMMA GrantedKeeps == ASSUME TokenInv, NEW j \in Jobs, Granted(j) PROVE TokenInv'
<1> DEFINE t == job[j].tok
<1>1. job[j].pc = "config" /\ job[j].kind # "callback" /\ job[j] \in JobStates /\ acct # None
  BY DEF Granted, Asked, TokenInv, TokenTypeOK, JobsFit, JobFits
<1>2. t \in Tokens /\ Usable(t) /\ t.serial = latest[t.grant] /\ t.grant \in Grants /\ t.serial \in 1..MaxSerial
  BY <1>1 DEF Granted, Usable, JobStates, Tokens
<1>3. job[j].new = None
  BY <1>1, AskedHoldsNothing
<1>4. UNCHANGED <<acct, appSecret, revoked, lost, crashes>>
  BY DEF Granted
<1>5. CASE /\ t.serial < MaxSerial
           /\ Issue(t.grant)
           /\ job' = [job EXCEPT ![j].pc = "write", ![j].tok = None,
                                 ![j].new = [t EXCEPT !.serial = @ + 1]]
  <2> DEFINE n == [t EXCEPT !.serial = @ + 1]
             x == [job[j] EXCEPT !.pc = "write", !.tok = None, !.new = n]
  <2>1. n = [grant |-> t.grant, serial |-> latest[t.grant] + 1]
    BY <1>2 DEF Tokens
  <2>2. n \in Tokens
    BY <1>2, <1>5, <2>1 DEF Tokens
  <2>3. job' = [job EXCEPT ![j] = x]
    BY <1>5
  <2>4. x \in JobStates /\ x.pc = "write" /\ x.tok = None /\ x.new = n /\ x.kind = job[j].kind
    <3> HIDE DEF n
    <3>1. x \in JobStates
      BY <1>1, <2>2, JobsUpdate
    <3>2. QED
      BY <1>1, <3>1 DEF JobStates
  <2>5. JobFits(x)
    BY <1>1, <2>4 DEF JobFits
  <2>6. \A k \in Jobs : job[k].new # None => job[k].new.grant # t.grant
    BY <1>2, UsableIsUnheld
  <2> HIDE DEF x, n
  <2>7. QED
    BY <1>2, <1>3, <1>4, <1>5, <2>1, <2>3, <2>4, <2>5, <2>6, IssueKeeps
<1>6. CASE job' = [job EXCEPT ![j].pc = "write", ![j].tok = None] /\ UNCHANGED latest
  <2> DEFINE x == [job[j] EXCEPT !.pc = "write", !.tok = None]
  <2>1. x \in JobStates /\ x.pc = "write" /\ x.tok = None /\ x.new = job[j].new /\ x.kind = job[j].kind
    <3>1. x \in JobStates
      BY <1>1, JobsUpdate
    <3>2. QED
      BY <1>1, <3>1 DEF JobStates
  <2>2. job' = [job EXCEPT ![j] = x] /\ JobFits(x) /\ x.new = None
    BY <1>1, <1>3, <1>6, <2>1 DEF JobFits
  <2> HIDE DEF x
  <2>3. QED
    BY <1>3, <1>4, <1>6, <2>1, <2>2, MoveKeeps DEF platform
<1>7. QED
  BY <1>5, <1>6 DEF Granted

LEMMA RejectedKeeps == ASSUME TokenInv, NEW j \in Jobs, Rejected(j) PROVE TokenInv'
<1> DEFINE x == [job[j] EXCEPT !.pc = "flag", !.tok = None]
<1>1. job[j].pc = "config" /\ job[j].kind # "callback" /\ job[j] \in JobStates /\ acct # None
  BY DEF Rejected, Asked, TokenInv, TokenTypeOK, JobsFit, JobFits
<1>2. job[j].new = None
  BY <1>1, AskedHoldsNothing
<1>3. x \in JobStates /\ x.pc = "flag" /\ x.tok = None /\ x.new = job[j].new /\ x.kind = job[j].kind
  <2>1. x \in JobStates
    BY <1>1, JobsUpdate
  <2>2. QED
    BY <1>1, <2>1 DEF JobStates
<1>4. /\ job' = [job EXCEPT ![j] = x] /\ JobFits(x) /\ x.new = None
      /\ UNCHANGED <<acct, platform, lost, crashes>>
  BY <1>1, <1>2, <1>3 DEF Rejected, JobFits
<1> HIDE DEF x
<1>5. QED
  BY <1>2, <1>3, <1>4, MoveKeeps

LEMMA EmptyKeeps == ASSUME TokenInv, NEW j \in Jobs, Empty(j) PROVE TokenInv'
<1> DEFINE t == job[j].tok
           x == [job[j] EXCEPT !.pc = "flag", !.tok = None]
<1>1. job[j].pc = "config" /\ job[j].kind # "callback" /\ job[j] \in JobStates /\ acct # None
  BY DEF Empty, Asked, TokenInv, TokenTypeOK, JobsFit, JobFits
<1>2. job[j].new = None
  BY <1>1, AskedHoldsNothing
<1>3. x \in JobStates /\ x.pc = "flag" /\ x.tok = None /\ x.new = job[j].new /\ x.kind = job[j].kind
  <2>1. x \in JobStates
    BY <1>1, JobsUpdate
  <2>2. QED
    BY <1>1, <2>1 DEF JobStates
<1>4. job' = [job EXCEPT ![j] = x] /\ JobFits(x) /\ x.new = None
  BY <1>1, <1>2, <1>3 DEF Empty, JobFits
<1>5. UNCHANGED <<acct, appSecret, revoked, crashes>>
  BY DEF Empty
<1> HIDE DEF x
<1>6. CASE UNCHANGED <<latest, lost>>
  BY <1>2, <1>3, <1>4, <1>5, <1>6, MoveKeeps DEF platform
<1>7. CASE Usable(t) /\ t.serial < MaxSerial /\ Issue(t.grant) /\ lost' = lost \cup {t.grant}
  <2>1. t \in Tokens /\ t.grant \in Grants /\ latest[t.grant] < MaxSerial
    BY <1>1, <1>7 DEF JobStates, Usable, Tokens
  <2>2. \A k \in Jobs : job[k].new # None => job[k].new.grant # t.grant
    BY <1>7, <2>1, UsableIsUnheld
  <2>3. QED
    BY <1>2, <1>3, <1>4, <1>5, <1>7, <2>1, <2>2, LoseKeeps
<1>8. QED
  BY <1>6, <1>7 DEF Empty, MayLose

LEMMA NoAnswerKeeps ==
  ASSUME TokenInv, NEW j \in Jobs, Refused(j) \/ Transient(j) PROVE TokenInv'
<1>1. job[j].pc = "config" /\ RefreshOver(j) /\ job[j] \in JobStates
  BY DEF Refused, Transient, Asked, TokenInv, TokenTypeOK
<1>2. /\ After(j) \in JobStates /\ After(j).new = None /\ After(j).tok = None
      /\ JobFits(After(j)) /\ job' = [job EXCEPT ![j] = After(j)]
  BY <1>1, AfterIsIdle
<1>3. job[j].new = None
  BY <1>1, AskedHoldsNothing
<1>4. CASE UNCHANGED <<acct, platform, lost, crashes>>
  BY <1>2, <1>3, <1>4, MoveKeeps
<1>5. CASE /\ Usable(job[j].tok) /\ job[j].tok.serial < MaxSerial
           /\ Issue(job[j].tok.grant) /\ lost' = lost \cup {job[j].tok.grant}
           /\ UNCHANGED <<acct, appSecret, revoked, crashes>>
  <2> DEFINE t == job[j].tok
  <2>1. t \in Tokens /\ t.grant \in Grants /\ latest[t.grant] < MaxSerial
    BY <1>1, <1>5 DEF JobStates, Usable, Tokens
  <2>2. \A k \in Jobs : job[k].new # None => job[k].new.grant # t.grant
    BY <1>5, <2>1, UsableIsUnheld
  <2>3. QED
    BY <1>2, <1>3, <1>5, <2>1, <2>2, LoseKeeps
<1>6. QED
  BY <1>4, <1>5 DEF Refused, Transient, MayLose, platform

LEMMA ConsentedKeeps == ASSUME TokenInv, NEW j \in Jobs, Consented(j) PROVE TokenInv'
<1>1. job[j].pc = "config" /\ job[j].kind = "callback" /\ job[j] \in JobStates
  BY DEF Consented, Asked, TokenInv, TokenTypeOK
<1>2. job[j].new = None
  BY <1>1, AskedHoldsNothing
<1>3. PICK g \in Grants :
        /\ latest[g] = 0 /\ Issue(g)
        /\ job' = [job EXCEPT ![j].pc = "write", ![j].new = [grant |-> g, serial |-> 1]]
  BY DEF Consented
<1> DEFINE n == [grant |-> g, serial |-> 1]
           x == [job[j] EXCEPT !.pc = "write", !.new = n]
<1>4. n \in Tokens /\ n = [grant |-> g, serial |-> latest[g] + 1] /\ latest[g] < MaxSerial
  BY <1>3 DEF Tokens
<1>8. job[j].tok = None
  BY <1>1 DEF TokenInv, JobsFit, JobFits
<1>5. x \in JobStates /\ x.pc = "write" /\ x.tok = job[j].tok /\ x.new = n /\ x.kind = job[j].kind
  <2> HIDE DEF n
  <2>1. x \in JobStates
    BY <1>1, <1>4, JobsUpdate
  <2>2. QED
    BY <1>1, <2>1 DEF JobStates
<1>6. job' = [job EXCEPT ![j] = x] /\ JobFits(x)
  BY <1>1, <1>3, <1>5, <1>8 DEF JobFits
<1>7. \A k \in Jobs : job[k].new # None => job[k].new.grant # g
  <2> SUFFICES ASSUME NEW k \in Jobs, job[k].new # None, job[k].new.grant = g PROVE FALSE
    OBVIOUS
  <2>1. job[k].new \in Tokens
    BY DEF TokenInv, TokenTypeOK, JobStates
  <2>2. job[k].new.serial = 0
    BY <1>3 DEF TokenInv, HeldIsLatest
  <2>3. QED
    BY <2>1, <2>2 DEF Tokens
<1> HIDE DEF x, n
<1>9. QED
  BY <1>2, <1>3, <1>4, <1>5, <1>6, <1>7, <1>8, IssueKeeps DEF Consented

\* The rewrites of a row keep it a row, and all but a refresh keep its token.
LEMMA AccountsUpdate ==
  ASSUME NEW x \in Accounts, NEW b \in BOOLEAN, NEW c \in {"ACTIVE", "ERROR"}
  PROVE  /\ [x EXCEPT !.due = b] \in Accounts /\ [x EXCEPT !.due = b].refresh = x.refresh
         /\ [x EXCEPT !.deleted = b] \in Accounts /\ [x EXCEPT !.deleted = b].refresh = x.refresh
         /\ [x EXCEPT !.tracked = b] \in Accounts /\ [x EXCEPT !.tracked = b].refresh = x.refresh
         /\ [x EXCEPT !.status = c] \in Accounts /\ [x EXCEPT !.status = c].refresh = x.refresh
  BY DEF Accounts

LEMMA RefreshedTyped ==
  ASSUME acct \in Accounts, NEW n \in Tokens \cup {None}
  PROVE  /\ Refreshed(n) \in Accounts
         /\ Refreshed(n).refresh = IF n = None THEN acct.refresh ELSE n
  BY DEF Refreshed, Accounts

LEMMA WritersKeep ==
  ASSUME TokenInv, NEW j \in Jobs, WriteTokens(j) \/ MarkError(j) PROVE TokenInv'
<1>1. job[j] \in JobStates /\ acct \in Accounts /\ job[j].pc # "idle"
  BY DEF WriteTokens, MarkError, TokenInv, TokenTypeOK, JobsFit, JobFits
<1>2. /\ After(j) \in JobStates /\ After(j).new = None /\ After(j).tok = None
      /\ job' = [job EXCEPT ![j] = After(j)]
  BY <1>1, AfterIsIdle DEF WriteTokens, MarkError
<1>3. job[j].new \in Tokens \cup {None}
  BY <1>1 DEF JobStates
<1>4. acct' \in Accounts
      /\ \/ acct'.refresh = job[j].new
         \/ acct'.refresh = acct.refresh /\ job[j].new = None
  <2>1. CASE WriteTokens(j)
    BY <1>1, <1>3, <2>1, RefreshedTyped DEF WriteTokens
  <2>2. CASE MarkError(j)
    BY <1>1, <2>2, AccountsUpdate DEF MarkError, Errored, TokenInv, JobsFit, JobFits
  <2>3. QED
    BY <2>1, <2>2
<1>5. acct # None /\ acct' # None
  BY <1>1, <1>4
<1>6. JobFits(After(j))'
  BY <1>2, <1>5, StatesOfJobs DEF After, JobFits
<1>7. UNCHANGED <<platform, lost, crashes>>
  BY DEF WriteTokens, MarkError
<1>8. QED
  BY <1>2, <1>4, <1>5, <1>7, RowKeeps, StatesOfJobs DEF After, JobFits

LEMMA UpsertKeeps == ASSUME TokenInv, NEW j \in Jobs, UpsertAccount(j) PROVE TokenInv'
<1>1. job[j] \in JobStates /\ job[j].new \in Tokens \cup {None}
  BY DEF TokenInv, TokenTypeOK, JobStates
<1>2. acct' \in Accounts /\ acct'.refresh = job[j].new
  BY <1>1 DEF UpsertAccount, Accounts, TokenInv, TokenTypeOK
<1>3. job' = [job EXCEPT ![j] = NoJob] /\ UNCHANGED <<platform, lost, crashes>>
  BY DEF UpsertAccount
<1>4. JobFits(NoJob)'
  BY StatesOfJobs DEF JobFits
<1>5. QED
  BY <1>2, <1>3, <1>4, RowKeeps, StatesOfJobs

LEMMA FetchKeeps == ASSUME TokenInv, NEW j \in Jobs, Fetch(j) \/ SyncFinish(j) PROVE TokenInv'
<1>1. job[j] \in JobStates /\ job[j].pc \in {"fetch", "finish"}
  BY DEF Fetch, SyncFinish, TokenInv, TokenTypeOK
<1>2. job[j].new = None /\ acct # None /\ job[j].kind # "callback"
  BY <1>1 DEF TokenInv, JobsFit, JobFits
<1>3. CASE Fetch(j) /\ job' = [job EXCEPT ![j].pc = "finish"]
  <2> DEFINE x == [job[j] EXCEPT !.pc = "finish"]
  <2>1. x \in JobStates
    BY <1>1, JobsUpdate
  <2>2. x.pc = "finish" /\ x.tok = job[j].tok /\ x.new = job[j].new /\ x.kind = job[j].kind
    BY <1>1, <2>1 DEF JobStates
  <2>3. job' = [job EXCEPT ![j] = x] /\ JobFits(x) /\ x.new = None
    BY <1>2, <1>3, <2>2 DEF JobFits
  <2> HIDE DEF x
  <2>4. QED
    BY <1>2, <1>3, <2>1, <2>2, <2>3, MoveKeeps DEF Fetch
<1>4. CASE Fetch(j) /\ job' = [job EXCEPT ![j] = NoJob]
  BY <1>2, <1>4, MoveKeeps, StatesOfJobs DEF Fetch, JobFits
<1>5. CASE SyncFinish(j)
  <2>1. acct' \in Accounts /\ acct'.refresh = acct.refresh
    BY <1>2, <1>5, AccountsUpdate DEF SyncFinish, Synced, TokenInv, TokenTypeOK
  <2>2. job' = [job EXCEPT ![j] = NoJob] /\ UNCHANGED <<platform, lost, crashes>>
    BY <1>5 DEF SyncFinish
  <2>3. JobFits(NoJob)'
    BY StatesOfJobs DEF JobFits
  <2>4. QED
    BY <1>2, <2>1, <2>2, <2>3, RowKeeps, StatesOfJobs
<1>6. QED
  BY <1>3, <1>4, <1>5 DEF Fetch

LEMMA RequestsKeep ==
  ASSUME TokenInv, Disconnect \/ SetTracked \/ TokenFallsDue \/ Revoke \/ RotateAppSecret
  PROVE  TokenInv'
<1>1. CASE Disconnect \/ SetTracked \/ TokenFallsDue
  <2>1. acct # None /\ acct \in Accounts /\ acct.tracked \in BOOLEAN
    BY <1>1 DEF Disconnect, SetTracked, TokenFallsDue, Live, TokenInv, TokenTypeOK, Accounts
  <2>2. acct' \in Accounts /\ acct'.refresh = acct.refresh
    <3>1. CASE Disconnect
      BY <2>1, <3>1, AccountsUpdate DEF Disconnect
    <3>2. CASE SetTracked
      BY <2>1, <3>2, AccountsUpdate DEF SetTracked
    <3>3. CASE TokenFallsDue
      BY <2>1, <3>3, AccountsUpdate DEF TokenFallsDue
    <3>4. QED
      BY <1>1, <3>1, <3>2, <3>3
  <2>3. UNCHANGED <<job, platform, lost, crashes>>
    BY <1>1 DEF Disconnect, SetTracked, TokenFallsDue
  <2>4. QED
    BY <2>1, <2>2, <2>3, FlagsKeep DEF platform, TokenInv, TokenTypeOK
<1>2. CASE Revoke \/ RotateAppSecret
  <2>1. /\ revoked \subseteq revoked' /\ revoked' \in SUBSET Grants /\ appSecret' \in Secrets
        /\ UNCHANGED <<acct, job, latest, lost, crashes>>
    BY <1>2 DEF Revoke, RotateAppSecret, TokenInv, TokenTypeOK
  <2>2. QED
    BY <2>1, FlagsKeep DEF TokenInv, TokenTypeOK
<1>3. QED
  BY <1>1, <1>2

\* A token typed in with the first row: nobody has seen its grant before.
LEMMA ConnectKeeps == ASSUME TokenInv, Connect PROVE TokenInv'
<1>1. PICK tok \in {None} \cup {[grant |-> g, serial |-> 1] : g \in {h \in Grants : latest[h] = 0}} :
        /\ acct' = [refresh |-> tok, due |-> TRUE, status |-> "ACTIVE",
                    deleted |-> FALSE, tracked |-> FALSE]
        /\ IF tok = None THEN UNCHANGED latest ELSE Issue(tok.grant)
  BY DEF Connect
<1>2. tok \in Tokens \cup {None}
      /\ (tok # None => tok.serial = 1 /\ tok.grant \in Grants /\ latest[tok.grant] = 0)
  BY <1>1 DEF Tokens
<1>3. acct = None /\ UNCHANGED <<job, appSecret, revoked, lost, crashes>>
  BY DEF Connect
<1>4. acct' \in Accounts /\ acct'.refresh = tok /\ acct' # None
  <2> DEFINE y == [refresh |-> tok, due |-> TRUE, status |-> "ACTIVE",
                   deleted |-> FALSE, tracked |-> FALSE]
  <2>1. y \in Accounts
    BY <1>2 DEF Accounts
  <2>2. y.refresh = tok
    OBVIOUS
  <2>3. acct' = y
    BY <1>1
  <2> HIDE DEF y
  <2>4. QED
    BY <2>1, <2>2, <2>3
<1>5. \A g \in Grants : latest[g] \in 0..MaxSerial
  BY DEF TokenInv, TokenTypeOK
<1>6. /\ latest' \in [Grants -> 0..MaxSerial]
      /\ \A h \in Grants : latest'[h] = IF tok # None /\ h = tok.grant THEN 1 ELSE latest[h]
  <2>1. CASE tok = None
    BY <1>1, <2>1 DEF TokenInv, TokenTypeOK
  <2>2. CASE tok # None
    <3>1. latest' = [latest EXCEPT ![tok.grant] = latest[tok.grant] + 1]
      BY <1>1, <2>2 DEF Issue
    <3>2. latest[tok.grant] + 1 = 1 /\ 1 \in 0..MaxSerial
      BY <1>2, <2>2
    <3>3. QED
      BY <1>2, <2>2, <3>1, <3>2 DEF TokenInv, TokenTypeOK
  <2>3. QED
    BY <2>1, <2>2
<1>7. \A j \in Jobs : /\ job[j].new # None => job[j].new \in Tokens
                      /\ job[j].tok # None => job[j].tok \in Tokens
  BY DEF TokenInv, TokenTypeOK, JobStates
<1>8. \A t \in Tokens : t.grant \in Grants /\ t.serial \in 1..MaxSerial
  BY DEF Tokens
<1>9. ASSUME NEW j \in Jobs, tok # None
      PROVE  /\ job[j].new # None => job[j].new.grant # tok.grant
             /\ job[j].tok # None => job[j].tok.grant # tok.grant
  BY <1>2, <1>7, <1>8, <1>9 DEF TokenInv, HeldIsLatest, SeenIsIssued
<1>10. TokenTypeOK'
  BY <1>3, <1>4, <1>6 DEF TokenInv, TokenTypeOK
<1>11. HeldIsLatest' /\ OneHolder' /\ JobsFit'
  BY <1>3, <1>4, <1>6, <1>7, <1>8, <1>9
     DEF TokenInv, HeldIsLatest, OneHolder, JobsFit, JobFits
<1>12. HeldIsNowhereElse'
  BY <1>3, <1>4, <1>9 DEF TokenInv, HeldIsNowhereElse
<1>13. SeenIsIssued'
  BY <1>2, <1>3, <1>4, <1>6, <1>7, <1>8, <1>9 DEF TokenInv, SeenIsIssued
<1>14. StoredTokenWorks'
  BY <1>2, <1>4, <1>6 DEF StoredTokenWorks, Usable
<1>15. QED
  BY <1>10, <1>11, <1>12, <1>13, <1>14 DEF TokenInv

LEMMA CrashKeeps == ASSUME TokenInv, Crash PROVE TokenInv'
<1>1. job' = [j \in Jobs |-> NoJob] /\ UNCHANGED <<acct, platform>>
      /\ lost' = lost \cup {job[j].new.grant : j \in {k \in Jobs : job[k].new # None}}
  BY DEF Crash
<1>2. \A j \in Jobs : job[j].new # None => job[j].new.grant \in Grants /\ job[j].new.grant \in lost'
  BY <1>1 DEF TokenInv, TokenTypeOK, JobStates, Tokens
<1>3. crashes' \in 0..MaxCrashes
  BY DEF Crash, TokenInv, TokenTypeOK
<1>4. lost' \in SUBSET Grants
  BY <1>1, <1>2 DEF TokenInv, TokenTypeOK
<1>5. TokenTypeOK'
  BY <1>1, <1>3, <1>4, StatesOfJobs DEF TokenInv, TokenTypeOK, platform
<1>6. HeldIsLatest' /\ HeldIsNowhereElse' /\ OneHolder' /\ SeenIsIssued' /\ JobsFit'
  BY <1>1, StatesOfJobs DEF TokenInv, HeldIsLatest, HeldIsNowhereElse, OneHolder, SeenIsIssued,
     JobsFit, JobFits, platform
<1>7. StoredTokenWorks'
  BY <1>1, <1>2 DEF TokenInv, StoredTokenWorks, Usable, platform
<1>8. QED
  BY <1>5, <1>6, <1>7 DEF TokenInv

LEMMA TokenInvStep == TokenInv /\ [Next]_vars => TokenInv'
<1> SUFFICES ASSUME TokenInv, [Next]_vars PROVE TokenInv'
  OBVIOUS
<1>1. ASSUME UNCHANGED tokenVars PROVE TokenInv'
  BY <1>1 DEF tokenVars, TokenInv, TokenTypeOK, HeldIsLatest, HeldIsNowhereElse, OneHolder,
              SeenIsIssued, JobsFit, JobFits, StoredTokenWorks, Usable
<1>2. ASSUME NEW j \in Jobs, JobStep(j) PROVE TokenInv'
  <2>1. CASE ConfigLookup(j) \/ ConfigSettle(j)
    BY <1>1, <2>1 DEF ConfigLookup, ConfigSettle
  <2>2. QED
    BY <1>2, <2>1, LoadKeeps, NoAnswerKeeps, GrantedKeeps, RejectedKeeps, EmptyKeeps, ConsentedKeeps,
       WritersKeep, UpsertKeeps, FetchKeeps DEF JobStep
<1>3. CASE AdminWrite \/ CacheTimeout \/ UNCHANGED vars
  BY <1>1, <1>3 DEF AdminWrite, CacheTimeout, vars, tokenVars
<1>4. QED
  BY <1>2, <1>3, ConnectKeeps, RequestsKeep, CrashKeeps DEF Next

\* The row, the jobs and the platform keep their shape: a sweep, a sync or a
\* late write never runs into a row that is not there, and a merge of an
\* optional refresh token never stores anything but a token or none.
THEOREM TypeCorrect == Spec => []TypeOK
<1>1. ConfigTypeOK /\ TokenInv => TypeOK
  BY DEF TokenInv, TokenTypeOK, TypeOK
<1>2. Spec => []ConfigTypeOK
  BY UsesProviderConfigs, ConfigTypeCorrect, PTL
<1>3. Spec => []TokenInv
  BY TokenInvInit, TokenInvStep, PTL DEF Spec
<1>4. QED
  BY <1>1, <1>2, <1>3, PTL

\* For any number of jobs and consents: the stored refresh token works unless
\* its grant was taken back, an answer or a crash lost its successor, or a job
\* has the successor in hand.
THEOREM StoredTokenCorrect == Spec => []StoredTokenWorks
<1>1. TokenInv => StoredTokenWorks
  BY DEF TokenInv
<1>2. QED
  BY <1>1, TokenInvInit, TokenInvStep, PTL DEF Spec

-----------------------------------------------------------------------------
(* Disconnecting *)

\* Whatever is under way when the user disconnects an account, only the write
\* of a consent makes it live again.
THEOREM DisconnectCorrect == Spec => DisconnectHolds
<1> DEFINE Revival == acct # None /\ acct.deleted /\ ~acct'.deleted
           ByConsent == \E j \in Jobs : job[j].kind = "callback" /\ job[j].new = acct'.refresh
<1>1. TokenInv /\ [Next]_vars => [Revival => ByConsent]_vars
  <2> SUFFICES ASSUME TokenInv, Next, Revival PROVE ByConsent
    BY DEF vars
  <2>1. acct \in Accounts /\ acct' # acct
    BY DEF TokenInv, TokenTypeOK
  <2>2. ASSUME NEW j \in Jobs, UpsertAccount(j) PROVE ByConsent
    <3>1. acct'.refresh = job[j].new
      BY <2>2 DEF UpsertAccount
    <3>2. QED
      BY <2>2, <3>1 DEF UpsertAccount
  <2>3. ASSUME NEW j \in Jobs, WriteTokens(j) \/ MarkError(j) \/ SyncFinish(j) PROVE FALSE
    <3>1. acct'.deleted = acct.deleted
      BY <2>1, <2>3 DEF WriteTokens, MarkError, SyncFinish, Refreshed, Errored, Synced, Accounts
    <3>2. QED
      BY <3>1
  <2>4. CASE Disconnect \/ SetTracked \/ TokenFallsDue
    <3>1. acct'.deleted
      BY <2>1, <2>4 DEF Disconnect, SetTracked, TokenFallsDue, Accounts, Live
    <3>2. QED
      BY <3>1
  <2>5. ASSUME NEW j \in Jobs, JobStep(j) PROVE ByConsent
    BY <2>1, <2>2, <2>3, <2>5 DEF JobStep, SweepLoad, SyncLoad, CallbackLoad, ConfigLookup,
       ConfigSettle, Refused, Granted, Rejected, Empty, Transient, Consented, Fetch, tokenVars
  <2>6. QED
    BY <2>1, <2>4, <2>5 DEF Next, Connect, AdminWrite, Revoke, RotateAppSecret, CacheTimeout,
       Crash, tokenVars
<1>2. QED
  BY <1>1, TokenInvInit, TokenInvStep, PTL DEF Spec, DisconnectHolds
=============================================================================
