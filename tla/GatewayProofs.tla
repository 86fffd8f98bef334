---------------------------- MODULE GatewayProofs ----------------------------
(***************************************************************************)
(* Proofs about three parts of the gateway that do not depend on each      *)
(* other: the credential of OAuthFailover, the walk of RouterFallback and  *)
(* the archiver of SpendArchive.                                           *)
(*                                                                         *)
(* The credential, for any number of threads.  The cache of the snapshot   *)
(* file is keyed by a time that was read before the contents, without a    *)
(* lock over the two.  What makes it sound is said in two parts: an entry  *)
(* under the file's present time has the file's present token              *)
(* (EntryIsTheFile), since a rename always brings a later time; and an     *)
(* entry under a time that a call has in hand holds a token the file held  *)
(* since that call began (EntryWasSeen).                                   *)
(*                                                                         *)
(* The walk, for any catalog, any number of requests and any depth: a      *)
(* deployment whose quota is spent is left alone, what a call takes along  *)
(* is what its deployment can use, and the walk of a request is bounded by *)
(* the chains it began with.  For the last one, Within and HopsOf are      *)
(* recursive functions; what they compute is shown by Induction, over sets *)
(* of numbers.  A walk has a potential, the hops that may still come       *)
(* (Ahead).                                                                *)
(*                                                                         *)
(* The archiver, for any set of requests and runners, any retention and    *)
(* any number of days and failures, under one assumption about the         *)
(* surroundings: a row is not written later than the retention after its   *)
(* request started.  The argument: the lock makes a run the only one       *)
(* (HolderRuns), but a DELETE that a dead run left behind may execute at   *)
(* any time.  The rows of a day past the retention are closed to inserts,  *)
(* so what was exported is still what the day holds when it is uploaded,   *)
(* or that DELETE has taken it since and an object has it (BlobExact,      *)
(* ObjectExact), and what a DELETE takes is in the object (Deletable).     *)
(* Only where it comes between count and export is the export empty, and   *)
(* the day is in raced.  The index is handled apart (IndexInv): a DELETE   *)
(* is sent after the entries of its day were taken out, or the run has     *)
(* warned.                                                                 *)
(***************************************************************************)
EXTENDS OAuthFailover, RouterFallback, SpendArchive, SequenceProofs

-----------------------------------------------------------------------------
(* The credential: OAuthFailover. *)

-----------------------------------------------------------------------------
(* The inductive invariant.                                                *)

Label == {"idle", "exists", "stat", "load", "select", "refused", "sent",
          "failed", "arming"}

FileToken == Login \cup {NoToken}
Token == FileToken \cup {Static, Fallback}
File == [mtime : Nat, token : FileToken]

HostTyped ==
  /\ env \in [static : BOOLEAN, fallback : BOOLEAN]
  /\ login \in Login
  /\ expired \subseteq Login
  /\ file \in File
  /\ writes \in Nat

SharedTyped ==
  /\ clock \in Nat
  /\ cooldown \in Nat
  /\ fileCache \in File
  /\ cache \in Token
  /\ armedOver \in Token

ThreadTyped ==
  /\ pc \in [Thread -> Label]
  /\ mtime \in [Thread -> Nat]
  /\ token \in [Thread -> Token]
  /\ held \in [Thread -> SUBSET FileToken]

AuthTypeOK == HostTyped /\ SharedTyped /\ ThreadTyped

\* A file that is there has a login and a time after zero; no time that was
\* read anywhere is later than the last write.
TimesSound ==
  /\ file.mtime = 0 <=> file.token = NoToken
  /\ fileCache.mtime = 0 <=> fileCache.token = NoToken
  /\ file.mtime <= writes
  /\ fileCache.mtime <= writes
  /\ \A t \in Thread : pc[t] = "load" => mtime[t] # 0 /\ mtime[t] <= writes

\* An entry under the present time of the file is what the file holds.
EntryIsTheFile ==
  file # Absent /\ fileCache.mtime = file.mtime => fileCache.token = file.token

\* An entry that the next load of a thread will hit holds what the file held
\* since the call began.
EntryWasSeen ==
  \A t \in Thread :
    pc[t] = "load" /\ fileCache.mtime = mtime[t] => fileCache.token \in held[t]

\* What the file holds is in the history of every call that looks at it.
LooksAtFile ==
  \A t \in Thread :
    /\ pc[t] \in {"exists", "stat", "load"} => file.token \in held[t]
    /\ pc[t] = "exists" => token[t] = NoToken

\* A login that is installed while a cooldown is in force is the one the
\* cooldown was armed over.
ArmedOverInstalled ==
  CoolingDown /\ cache \in Login => armedOver = cache

AuthIInv ==
  /\ AuthTypeOK
  /\ TimesSound
  /\ EntryIsTheFile
  /\ EntryWasSeen
  /\ LooksAtFile
  /\ ArmedOverInstalled
  /\ AsTheFile

\* The tokens of the environment are no logins.
LEMMA TokenFacts ==
  /\ Login \subseteq Nat /\ 1 \in Login
  /\ Static \notin Login /\ Fallback \notin Login /\ NoToken \notin Login
  /\ Absent \in File
  /\ CooldownSeconds \in Nat /\ ProbeSeconds \in Nat
BY TokenAssumption DEF TokenAssumption, Login, Absent, File, FileToken

LEMMA InitInv == AuthInit => AuthIInv
<1> SUFFICES ASSUME AuthInit PROVE AuthIInv
  OBVIOUS
<1>1. AuthTypeOK
  BY TokenFacts DEF AuthInit, AuthTypeOK, HostTyped, SharedTyped, ThreadTyped, Label,
     FileToken, Token
<1>2. TimesSound /\ EntryIsTheFile
  BY TokenFacts DEF AuthInit, TimesSound, EntryIsTheFile, Absent
<1>3. EntryWasSeen /\ LooksAtFile /\ AsTheFile
  BY DEF AuthInit, EntryWasSeen, LooksAtFile, AsTheFile
<1>4. ArmedOverInstalled
  BY TokenFacts DEF AuthInit, ArmedOverInstalled, CoolingDown
<1> QED BY <1>1, <1>2, <1>3, <1>4 DEF AuthIInv

-----------------------------------------------------------------------------
(* Types.                                                                  *)

LEMMA HostTypes ==
  ASSUME AuthTypeOK, Host
  PROVE  AuthTypeOK'
<1> USE DEF AuthTypeOK, HostTyped, SharedTyped, ThreadTyped, host, shared, thread, history
<1>1. ASSUME LogIn PROVE AuthTypeOK'
  BY <1>1, TokenAssumption DEF LogIn, Login, TokenAssumption
<1>2. ASSUME NEW f \in File, Writes(f), writes' \in Nat PROVE AuthTypeOK'
  <2>1. f.token \in FileToken
    BY DEF File
  <2>2. held' \in [Thread -> SUBSET FileToken]
    BY <1>2, <2>1 DEF Writes
  <2> QED BY <1>2, <2>2 DEF Writes
<1>3. ASSUME Sync PROVE AuthTypeOK'
  <2>1. [mtime |-> writes + 1, token |-> login] \in File
    BY DEF File, FileToken
  <2> QED BY <1>3, <2>1, <1>2 DEF Sync
<1>4. ASSUME FileLost PROVE AuthTypeOK'
  BY <1>4, <1>2, TokenFacts DEF FileLost
<1>5. ASSUME Expire PROVE AuthTypeOK'
  <2>1. \A l \in 1..login : l \in Login
    BY TokenAssumption DEF Login, TokenAssumption
  <2> QED BY <1>5, <2>1 DEF Expire
<1>6. ASSUME TimePasses PROVE AuthTypeOK'
  BY <1>6 DEF TimePasses
<1> QED BY <1>1, <1>3, <1>4, <1>5, <1>6 DEF Host

\* What a call in the gateway leaves alone, and where it may go.
LEMMA GatewayTypes ==
  ASSUME AuthTypeOK, NEW t \in Thread, Gateway(t)
  PROVE  AuthTypeOK'
<1> USE DEF AuthTypeOK, HostTyped, SharedTyped, ThreadTyped, host, shared, thread,
        history, Goto, Takes, Ends
<1>1. \A l \in Label : [pc EXCEPT ![t] = l] \in [Thread -> Label]
  OBVIOUS
<1>2. \A k \in Token : [token EXCEPT ![t] = k] \in [Thread -> Token]
  OBVIOUS
<1>3. \A n \in Nat : [mtime EXCEPT ![t] = n] \in [Thread -> Nat]
  OBVIOUS
<1>4. /\ [held EXCEPT ![t] = {}] \in [Thread -> SUBSET FileToken]
      /\ [held EXCEPT ![t] = {file.token}] \in [Thread -> SUBSET FileToken]
  BY DEF File
<1>5. /\ NoToken \in Token /\ Static \in Token /\ Fallback \in Token
      /\ file.token \in Token /\ fileCache.token \in Token
      /\ file.mtime \in Nat
  BY DEF Token, File, FileToken
<1>6. \A l \in {"idle", "exists", "stat", "load", "select", "refused", "sent",
               "failed", "arming"} : l \in Label
  BY DEF Label
<1>7. clock + ProbeSeconds \in Nat /\ clock + CooldownSeconds \in Nat
  BY TokenFacts
<1>8. ASSUME Asks(t) PROVE AuthTypeOK'
  BY <1>8, <1>1, <1>2, <1>4, <1>5, <1>6 DEF Asks
<1>9. ASSUME Exists(t) PROVE AuthTypeOK'
  BY <1>9, <1>1, <1>6 DEF Exists
<1>10. ASSUME Stat(t) PROVE AuthTypeOK'
  BY <1>10, <1>1, <1>3, <1>5, <1>6 DEF Stat
<1>11. ASSUME Load(t) PROVE AuthTypeOK'
  <2>1. [mtime |-> mtime[t], token |-> file.token] \in File
    BY DEF File
  <2>2. fileCache' \in File
    BY <1>11, <2>1 DEF Load
  <2>3. fileCache'.token \in Token
    BY <2>2 DEF File, Token
  <2>4. token' \in [Thread -> Token]
    BY <1>11, <2>3, <1>2 DEF Load
  <2>5. pc' \in [Thread -> Label]
    BY <1>11, <1>1, <1>6 DEF Load
  <2>6. mtime' \in [Thread -> Nat]
    BY <1>11, <1>3 DEF Load
  <2> QED BY <1>11, <2>2, <2>4, <2>5, <2>6 DEF Load
<1>12. ASSUME Select(t) PROVE AuthTypeOK'
  <2>1. PrimaryToken(t) \in Token
    BY <1>5 DEF PrimaryToken
  <2>2. cooldown' \in Nat
    BY <1>12 DEF Select, CooldownFor
  <2> QED BY <1>12, <2>1, <2>2, <1>1, <1>2, <1>5, <1>6 DEF Select
<1>13. ASSUME Refused(t) PROVE AuthTypeOK'
  BY <1>13, <1>1, <1>2, <1>4, <1>5, <1>6 DEF Refused
<1>14. ASSUME Answered(t) PROVE AuthTypeOK'
  BY <1>14, <1>1, <1>2, <1>4, <1>5, <1>6 DEF Answered
<1>15. ASSUME Failed(t) PROVE AuthTypeOK'
  BY <1>15, <1>1, <1>6 DEF Failed
<1>16. ASSUME CapCooldown(t) PROVE AuthTypeOK'
  BY <1>16, <1>1, <1>2, <1>4, <1>5, <1>6, <1>7 DEF CapCooldown
<1>17. ASSUME CheckCooldown(t) PROVE AuthTypeOK'
  BY <1>17, <1>1, <1>2, <1>4, <1>5, <1>6 DEF CheckCooldown
<1>18. ASSUME Arm(t) PROVE AuthTypeOK'
  BY <1>18, <1>1, <1>2, <1>4, <1>5, <1>6, <1>7 DEF Arm
<1> QED BY <1>8, <1>9, <1>10, <1>11, <1>12, <1>13, <1>14, <1>15, <1>16, <1>17,
       <1>18 DEF Gateway

LEMMA AuthTypeStep == AuthTypeOK /\ [AuthNext]_authVars => AuthTypeOK'
<1> SUFFICES ASSUME AuthTypeOK, [AuthNext]_authVars PROVE AuthTypeOK'
  OBVIOUS
<1>1. CASE AuthNext
  BY <1>1, HostTypes, GatewayTypes DEF AuthNext
<1>2. CASE UNCHANGED authVars
  BY <1>2 DEF authVars, host, shared, thread, history, AuthTypeOK, HostTyped,
     SharedTyped, ThreadTyped
<1> QED BY <1>1, <1>2

-----------------------------------------------------------------------------
(* The invariant is preserved: the host.                                   *)

\* A rename brings a time later than every time read before; whatever comes
\* to be in the file is noted by the calls that look at it.
LEMMA WriteInv ==
  ASSUME AuthIInv, NEW f \in File, Writes(f),
         \/ f = Absent /\ writes' = writes
         \/ f.token \in Login /\ f.mtime = writes + 1 /\ writes' = writes + 1
  PROVE  AuthIInv'
<1> USE DEF AuthIInv, AuthTypeOK, HostTyped, SharedTyped, ThreadTyped, host, shared,
        thread, history
<1>1. AuthTypeOK'
  <2>1. f.token \in FileToken
    BY DEF File
  <2>2. held' \in [Thread -> SUBSET FileToken]
    BY <2>1 DEF Writes
  <2> QED BY <2>2 DEF Writes
<1>2. file' = f /\ UNCHANGED <<pc, mtime, token, fileCache, cache, cooldown,
                                   clock, expired, armedOver>>
  BY DEF Writes
<1>3. \A t \in Thread :
        /\ held[t] \subseteq held'[t]
        /\ pc[t] \in {"exists", "stat", "load"} => f.token \in held'[t]
  BY DEF Writes
<1>4. /\ f.mtime \in Nat /\ (f.mtime = 0 <=> f.token = NoToken)
      /\ f.mtime <= writes' /\ writes <= writes'
  BY TokenFacts DEF File, Absent
<1>5. fileCache.mtime \in Nat
  BY DEF File
<1>6. TimesSound'
  <2>1. fileCache.mtime <= writes'
    BY <1>4, <1>5 DEF TimesSound
  <2>2. \A t \in Thread : pc[t] = "load" => mtime[t] <= writes'
    BY <1>4 DEF TimesSound
  <2> QED BY <1>2, <1>4, <2>1, <2>2 DEF TimesSound
<1>7. EntryIsTheFile'
  BY <1>2, <1>5 DEF EntryIsTheFile, TimesSound, Absent
<1>8. EntryWasSeen' /\ LooksAtFile'
  BY <1>2, <1>3 DEF EntryWasSeen, LooksAtFile
<1>9. AsTheFile'
  <2>1. \A t \in Thread : held[t] \cap expired # {} => held'[t] \cap expired # {}
    BY <1>3
  <2> QED BY <1>2, <1>3, <2>1 DEF AsTheFile
<1>10. ArmedOverInstalled'
  BY <1>2 DEF ArmedOverInstalled, CoolingDown
<1> QED BY <1>1, <1>6, <1>7, <1>8, <1>9, <1>10

LEMMA HostInv ==
  ASSUME AuthIInv, Host
  PROVE  AuthIInv'
<1> USE DEF AuthTypeOK, HostTyped, SharedTyped, ThreadTyped, host, shared, thread, history
<1>0. AuthTypeOK'
  BY HostTypes DEF AuthIInv
<1>1. ASSUME LogIn PROVE AuthIInv'
  BY <1>0, <1>1 DEF AuthIInv, LogIn, TimesSound, EntryIsTheFile, EntryWasSeen,
     LooksAtFile, ArmedOverInstalled, CoolingDown, AsTheFile
<1>2. ASSUME Sync PROVE AuthIInv'
  <2> DEFINE f == [mtime |-> writes + 1, token |-> login]
  <2>1. f \in File /\ f.token \in Login /\ f.mtime = writes + 1
    BY DEF File, FileToken, AuthIInv
  <2>2. Writes(f) /\ writes' = writes + 1
    BY <1>2 DEF Sync
  <2> QED BY <2>1, <2>2, WriteInv
<1>3. ASSUME FileLost PROVE AuthIInv'
  BY <1>3, WriteInv, TokenFacts DEF FileLost
<1>4. ASSUME Expire PROVE AuthIInv'
  <2>1. expired \subseteq expired'
    BY <1>4 DEF Expire
  <2>2. UNCHANGED <<pc, token, held>>
    BY <1>4 DEF Expire
  <2>3. AsTheFile'
    <3>1. \A t \in Thread : held[t] \cap expired # {} => held[t] \cap expired' # {}
      BY <2>1
    <3> QED BY <2>2, <3>1 DEF AsTheFile, AuthIInv
  <2> QED BY <1>0, <1>4, <2>3 DEF AuthIInv, Expire, TimesSound, EntryIsTheFile,
         EntryWasSeen, LooksAtFile, ArmedOverInstalled, CoolingDown
<1>5. ASSUME TimePasses PROVE AuthIInv'
  <2>1. ArmedOverInstalled'
    BY <1>5 DEF TimePasses, AuthIInv, ArmedOverInstalled, CoolingDown
  <2> QED BY <1>0, <1>5, <2>1 DEF AuthIInv, TimePasses, TimesSound, EntryIsTheFile,
         EntryWasSeen, LooksAtFile, AsTheFile
<1> QED BY <1>1, <1>2, <1>3, <1>4, <1>5 DEF Host

-----------------------------------------------------------------------------
(* The invariant is preserved: a call.                                     *)

\* What a step of one call leaves to the other threads.
LEMMA Others ==
  ASSUME AuthTypeOK, NEW t \in Thread, Gateway(t), NEW o \in Thread, o # t
  PROVE  /\ pc'[o] = pc[o] /\ mtime'[o] = mtime[o]
         /\ token'[o] = token[o] /\ held'[o] = held[o]
<1> USE DEF AuthTypeOK, ThreadTyped, Goto, Takes, Ends, thread, history
<1>1. pc'[o] = pc[o]
  BY DEF Gateway, Asks, Exists, Stat, Load, Select, Refused, Answered, Failed,
     CapCooldown, CheckCooldown, Arm
<1>2. mtime'[o] = mtime[o]
  BY DEF Gateway, Asks, Exists, Stat, Load, Select, Refused, Answered, Failed,
     CapCooldown, CheckCooldown, Arm
<1>3. token'[o] = token[o]
  BY DEF Gateway, Asks, Exists, Stat, Load, Select, Refused, Answered, Failed,
     CapCooldown, CheckCooldown, Arm
<1>4. held'[o] = held[o]
  BY DEF Gateway, Asks, Exists, Stat, Load, Select, Refused, Answered, Failed,
     CapCooldown, CheckCooldown, Arm
<1> QED BY <1>1, <1>2, <1>3, <1>4

\* A call does not touch the file, nor what has expired.
LEMMA CallFrame ==
  ASSUME NEW t \in Thread, Gateway(t)
  PROVE  /\ file' = file /\ writes' = writes /\ expired' = expired
         /\ clock' = clock
         /\ fileCache' = fileCache \/ Load(t)
BY DEF Gateway, Asks, Exists, Stat, Load, Select, Refused, Answered, Failed,
   CapCooldown, CheckCooldown, Arm, host, shared

\* An entry is made of a time that was read and what the file holds now.
LEMMA CachedEntry ==
  ASSUME AuthTypeOK, NEW t \in Thread, Gateway(t), fileCache' # fileCache
  PROVE  /\ pc[t] = "load" /\ file # Absent
         /\ fileCache'.mtime = mtime[t] /\ fileCache'.token = file.token
BY CallFrame DEF Load, Gone

\* Where a call that has read the time or is past the file came from.
LEMMA Arrivals ==
  ASSUME AuthTypeOK, NEW t \in Thread, Gateway(t)
  PROVE  /\ pc'[t] = "exists" => Asks(t)
         /\ pc'[t] = "stat" => Exists(t) /\ held'[t] = held[t]
         /\ pc'[t] = "load" => Stat(t) /\ file # Absent /\ mtime'[t] = file.mtime
                               /\ held'[t] = held[t]
         /\ pc'[t] = "select" => Exists(t) \/ Load(t)
         /\ pc'[t] = "refused" => Exists(t) \/ Stat(t) \/ Load(t)
         /\ pc'[t] = "sent" => Select(t) \/ Refused(t)
<1> USE DEF AuthTypeOK, ThreadTyped, Goto, Takes, Ends, thread, history
<1>1. ASSUME Asks(t) PROVE pc'[t] = "exists"
  BY <1>1 DEF Asks
<1>2. ASSUME Exists(t) PROVE pc'[t] \in {"stat", "refused", "select"} /\ held' = held
  BY <1>2 DEF Exists
<1>3. ASSUME Stat(t)
      PROVE  /\ pc'[t] \in {"load", "refused"} /\ held' = held
             /\ pc'[t] = "load" => file # Absent /\ mtime'[t] = file.mtime
  BY <1>3 DEF Stat
<1>4. ASSUME Load(t) PROVE pc'[t] \in {"refused", "select"}
  BY <1>4 DEF Load
<1>5. ASSUME Select(t) PROVE pc'[t] = "sent"
  BY <1>5 DEF Select
<1>6. ASSUME Refused(t) PROVE pc'[t] \in {"sent", "idle"}
  BY <1>6 DEF Refused
<1>7. ASSUME Answered(t) \/ CapCooldown(t) \/ Arm(t) PROVE pc'[t] = "idle"
  BY <1>7 DEF Answered, CapCooldown, Arm
<1>8. ASSUME Failed(t) \/ CheckCooldown(t) PROVE pc'[t] \in {"failed", "arming", "idle"}
  BY <1>8 DEF Failed, CheckCooldown
<1> QED BY <1>1, <1>2, <1>3, <1>4, <1>5, <1>6, <1>7, <1>8 DEF Gateway

LEMMA TimesStep ==
  ASSUME AuthIInv, NEW t \in Thread, Gateway(t)
  PROVE  TimesSound'
<1> USE DEF AuthIInv, TimesSound
<1>1. file.token \in FileToken /\ file.mtime \in Nat
  BY DEF AuthTypeOK, HostTyped, File
<1>2. /\ fileCache'.mtime = 0 <=> fileCache'.token = NoToken
      /\ fileCache'.mtime <= writes
  <2>1. CASE fileCache' = fileCache
    BY <2>1
  <2>2. CASE fileCache' # fileCache
    <3>1. file.token # NoToken
      BY <2>2, <1>1, CachedEntry DEF Absent, AuthTypeOK, HostTyped, File
    <3> QED BY <2>2, <3>1, CachedEntry
  <2> QED BY <2>1, <2>2
<1>3. \A o \in Thread : pc'[o] = "load" => mtime'[o] # 0 /\ mtime'[o] <= writes
  <2>1. ASSUME NEW o \in Thread, pc'[o] = "load", o # t
        PROVE  mtime'[o] # 0 /\ mtime'[o] <= writes
    BY <2>1, Others
  <2>2. ASSUME pc'[t] = "load"
        PROVE  mtime'[t] # 0 /\ mtime'[t] <= writes
    BY <2>2, <1>1, Arrivals DEF Absent, AuthTypeOK, HostTyped, File
  <2> QED BY <2>1, <2>2
<1> QED BY <1>2, <1>3, CallFrame

\* The heart of it: an entry is filed under a time that is that of the file,
\* or of a file that is no more.
LEMMA EntryStep ==
  ASSUME AuthIInv, NEW t \in Thread, Gateway(t)
  PROVE  EntryIsTheFile'
<1>1. CASE fileCache' = fileCache
  BY <1>1, CallFrame DEF AuthIInv, EntryIsTheFile
<1>2. CASE fileCache' # fileCache
  BY <1>2, CachedEntry, CallFrame DEF AuthIInv, EntryIsTheFile
<1> QED BY <1>1, <1>2

LEMMA SeenStep ==
  ASSUME AuthIInv, NEW t \in Thread, Gateway(t)
  PROVE  EntryWasSeen'
<1> SUFFICES ASSUME NEW o \in Thread, pc'[o] = "load",
                    fileCache'.mtime = mtime'[o]
             PROVE  fileCache'.token \in held'[o]
  BY DEF EntryWasSeen
<1>1. CASE o # t
  <2>1. pc[o] = "load" /\ mtime'[o] = mtime[o] /\ held'[o] = held[o]
    BY <1>1, Others DEF AuthIInv
  <2>2. CASE fileCache' = fileCache
    BY <2>1, <2>2 DEF AuthIInv, EntryWasSeen
  <2>3. CASE fileCache' # fileCache
    BY <2>1, <2>3, CachedEntry DEF AuthIInv, LooksAtFile
  <2> QED BY <2>2, <2>3
<1>2. CASE o = t
  <2>1. Stat(t) /\ file # Absent /\ mtime'[t] = file.mtime /\ held'[t] = held[t]
    BY <1>2, Arrivals DEF AuthIInv
  <2>2. pc[t] = "stat" /\ fileCache' = fileCache
    BY <2>1 DEF Stat, shared
  <2> QED BY <1>2, <2>1, <2>2 DEF AuthIInv, EntryIsTheFile, LooksAtFile
<1> QED BY <1>1, <1>2

LEMMA LooksStep ==
  ASSUME AuthIInv, NEW t \in Thread, Gateway(t)
  PROVE  LooksAtFile'
<1> SUFFICES ASSUME NEW o \in Thread
             PROVE  /\ pc'[o] \in {"exists", "stat", "load"} => file.token \in held'[o]
                    /\ pc'[o] = "exists" => token'[o] = NoToken
  BY CallFrame DEF LooksAtFile
<1>1. CASE o # t
  BY <1>1, Others DEF AuthIInv, LooksAtFile
<1>2. CASE o = t
  <2>1. ASSUME pc'[t] = "exists"
        PROVE  file.token \in held'[t] /\ token'[t] = NoToken
    BY <2>1, Arrivals DEF AuthIInv, AuthTypeOK, ThreadTyped, Asks, Takes
  <2>2. ASSUME pc'[t] \in {"stat", "load"}
        PROVE  file.token \in held'[t]
    BY <2>2, Arrivals DEF AuthIInv, LooksAtFile, Exists, Stat
  <2> QED BY <1>2, <2>1, <2>2
<1> QED BY <1>1, <1>2

LEMMA ArmedStep ==
  ASSUME AuthIInv, NEW t \in Thread, Gateway(t)
  PROVE  ArmedOverInstalled'
<1> SUFFICES ASSUME clock < cooldown', cache' \in Login
             PROVE  armedOver' = cache'
  BY CallFrame DEF ArmedOverInstalled, CoolingDown
<1> USE DEF AuthIInv, ArmedOverInstalled, CoolingDown
<1>1. ASSUME Select(t) PROVE armedOver' = cache'
  <2>1. armedOver' = armedOver /\ CooldownFor(t) > 0 /\ clock < cooldown
    BY <1>1 DEF Select, CooldownFor, history, AuthTypeOK, SharedTyped
  <2>2. cache' = cache
    BY <1>1, <2>1, TokenFacts DEF Select, CooldownFor, PrimaryToken
  <2> QED BY <2>1, <2>2
<1>2. ASSUME CapCooldown(t) PROVE armedOver' = cache'
  BY <1>2, TokenFacts DEF CapCooldown, AuthTypeOK, SharedTyped
<1>3. ASSUME Arm(t) PROVE armedOver' = cache'
  BY <1>3 DEF Arm
<1>4. CASE Asks(t) \/ Exists(t) \/ Stat(t) \/ Load(t) \/ Refused(t)
           \/ Answered(t) \/ Failed(t) \/ CheckCooldown(t)
  BY <1>4 DEF Asks, Exists, Stat, Load, Refused, Answered, Failed,
     CheckCooldown, shared, history
<1> QED BY <1>1, <1>2, <1>3, <1>4 DEF Gateway

LEMMA AsTheFileStep ==
  ASSUME AuthIInv, NEW t \in Thread, Gateway(t)
  PROVE  AsTheFile'
<1> USE DEF AuthIInv, AuthTypeOK, ThreadTyped
<1> SUFFICES ASSUME NEW o \in Thread
             PROVE  /\ pc'[o] \in {"select", "sent"} /\ token'[o] \in Login
                         => token'[o] \in held'[o]
                    /\ pc'[o] = "refused"
                         => NoToken \in held'[o] \/ held'[o] \cap expired' # {}
  BY DEF AsTheFile
<1>1. CASE o # t
  BY <1>1, Others, CallFrame DEF AsTheFile
<1>2. ASSUME Exists(t), file = Absent
      PROVE  token'[t] = NoToken /\ NoToken \in held'[t]
  BY <1>2 DEF Exists, LooksAtFile, Absent, thread, history
<1>3. ASSUME Stat(t), file = Absent
      PROVE  NoToken \in held'[t]
  BY <1>3 DEF Stat, LooksAtFile, Absent, history
<1>4. ASSUME Load(t)
      PROVE  /\ pc'[t] = "select" => token'[t] \in held'[t]
             /\ pc'[t] = "refused"
                  => NoToken \in held'[t] \/ held'[t] \cap expired # {}
  <2>1. pc[t] = "load" /\ held' = held /\ file.token \in held[t]
    BY <1>4 DEF Load, LooksAtFile, history
  <2>2. CASE Gone(t)
    BY <1>4, <2>1, <2>2 DEF Load, Gone, Absent, Goto
  <2>3. CASE ~Gone(t)
    <3>1. fileCache'.token \in held[t]
      <4>1. CASE Cached(t)
        BY <1>4, <2>1, <2>3, <4>1 DEF Load, Cached, EntryWasSeen
      <4>2. CASE ~Cached(t)
        BY <1>4, <2>1, <2>3, <4>2 DEF Load
      <4> QED BY <4>1, <4>2
    <3>2. token'[t] = fileCache'.token
      BY <1>4, <2>3 DEF Load, Takes
    <3>3. pc'[t] = "refused" => fileCache'.token \in expired
      BY <1>4, <2>3 DEF Load, Goto
    <3> QED BY <2>1, <3>1, <3>2, <3>3
  <2> QED BY <2>2, <2>3
<1>5. ASSUME Select(t), token'[t] \in Login
      PROVE  token'[t] \in held'[t]
  <2>1. pc[t] = "select" /\ held' = held /\ token'[t] \in {Fallback, PrimaryToken(t)}
    BY <1>5 DEF Select, Takes, history
  <2>2. token'[t] = token[t]
    BY <1>5, <2>1, TokenFacts DEF PrimaryToken
  <2> QED BY <1>5, <2>1, <2>2 DEF AsTheFile
<1>6. ASSUME Refused(t), pc'[t] = "sent" PROVE token'[t] \notin Login
  BY <1>6, TokenFacts DEF Refused, Takes, Ends, Goto
<1>7. CASE o = t
  <2>1. ASSUME pc'[t] = "select", token'[t] \in Login
        PROVE  token'[t] \in held'[t]
    <3>1. CASE Exists(t)
      BY <2>1, <3>1, <1>2, TokenFacts DEF Exists, Goto
    <3>2. CASE Load(t)
      BY <2>1, <3>2, <1>4
    <3> QED BY <2>1, <3>1, <3>2, Arrivals
  <2>2. ASSUME pc'[t] = "sent", token'[t] \in Login
        PROVE  token'[t] \in held'[t]
    BY <2>2, <1>5, <1>6, Arrivals
  <2>3. ASSUME pc'[t] = "refused"
        PROVE  NoToken \in held'[t] \/ held'[t] \cap expired # {}
    <3>1. CASE Exists(t)
      BY <2>3, <3>1, <1>2 DEF Exists, Goto
    <3>2. CASE Stat(t)
      BY <2>3, <3>2, <1>3 DEF Stat, Goto
    <3>3. CASE Load(t)
      BY <2>3, <3>3, <1>4
    <3> QED BY <2>3, <3>1, <3>2, <3>3, Arrivals
  <2> QED BY <1>7, <2>1, <2>2, <2>3, CallFrame
<1> QED BY <1>1, <1>7

LEMMA StepInv == AuthIInv /\ [AuthNext]_authVars => AuthIInv'
<1> SUFFICES ASSUME AuthIInv, [AuthNext]_authVars PROVE AuthIInv'
  OBVIOUS
<1>1. CASE Host
  BY <1>1, HostInv
<1>2. ASSUME NEW t \in Thread, Gateway(t) PROVE AuthIInv'
  <2>1. AuthTypeOK'
    BY <1>2, GatewayTypes DEF AuthIInv
  <2> QED BY <1>2, <2>1, TimesStep, EntryStep, SeenStep, LooksStep, ArmedStep,
         AsTheFileStep DEF AuthIInv
<1>3. CASE UNCHANGED authVars
  BY <1>3 DEF authVars, host, shared, thread, history, AuthIInv, AuthTypeOK, HostTyped,
     SharedTyped, ThreadTyped, TimesSound, EntryIsTheFile, EntryWasSeen,
     LooksAtFile, ArmedOverInstalled, CoolingDown, AsTheFile
<1> QED BY <1>1, <1>2, <1>3 DEF AuthNext

-----------------------------------------------------------------------------
(* The theorems.                                                           *)

\* The invariant holds in every behaviour.
THEOREM AuthInvariance == AuthSpec => []AuthIInv
BY InitInv, StepInv, PTL DEF AuthSpec

\* A login that a request goes out with is one the file held while the call
\* looked at it, and a call is refused the primary credential only when the
\* file was missing or held an expired login then (oauth.py:152-169).
THEOREM AsTheFileCorrect == AuthSpec => []AsTheFile
<1>1. AuthIInv => AsTheFile
  BY DEF AuthIInv
<1> QED BY <1>1, AuthInvariance, PTL

\* A cooldown in force is not extended, however many failures are reported at
\* once (oauth.py:286-296).
THEOREM NeverExtendedCorrect == AuthSpec => NeverExtended
<1>1. AuthIInv /\ [AuthNext]_authVars => [cooldown' > cooldown => ~CoolingDown]_authVars
  <2> SUFFICES ASSUME AuthIInv, AuthNext, cooldown' > cooldown
               PROVE  ~CoolingDown
    OBVIOUS
  <2> USE DEF AuthIInv, AuthTypeOK, SharedTyped
  <2>1. CASE Host
    BY <2>1 DEF Host, LogIn, Sync, FileLost, Expire, TimePasses, Writes, shared
  <2>2. ASSUME NEW t \in Thread, Gateway(t) PROVE ~CoolingDown
    <3>1. CASE Select(t)
      BY <2>2, <3>1 DEF Select, CooldownFor
    <3>2. CASE CapCooldown(t)
      BY <3>2, TokenFacts DEF CapCooldown
    <3>3. CASE Arm(t)
      BY <3>3 DEF Arm, Armable
    <3>4. CASE Asks(t) \/ Exists(t) \/ Stat(t) \/ Load(t) \/ Refused(t)
               \/ Answered(t) \/ Failed(t) \/ CheckCooldown(t)
      BY <3>4 DEF Asks, Exists, Stat, Load, Refused, Answered, Failed,
         CheckCooldown, shared
    <3> QED BY <2>2, <3>1, <3>2, <3>3, <3>4 DEF Gateway
  <2> QED BY <2>1, <2>2 DEF AuthNext
<1> QED BY <1>1, AuthInvariance, PTL DEF AuthSpec, NeverExtended

\* A login is passed over for the fallback account only by a cooldown that was
\* armed while it was the installed one (oauth.py:177-182).
THEOREM NewLoginCorrect == AuthSpec => NewLoginIsTried
<1>1. ASSUME AuthIInv, AuthNext, NEW t \in Thread, pc[t] = "select",
             token[t] \in Login, token'[t] = Fallback
      PROVE  armedOver = token[t]
  <2>1. Select(t)
    <3>1. token'[t] # token[t]
      BY <1>1, TokenFacts
    <3>2. CASE Host
      BY <3>1, <3>2 DEF Host, LogIn, Sync, FileLost, Expire, TimePasses, Writes, thread
    <3>3. ASSUME NEW o \in Thread, Gateway(o) PROVE Select(t)
      <4>1. o = t
        BY <1>1, <3>1, <3>3, Others DEF AuthIInv
      <4> QED BY <1>1, <3>3, <4>1 DEF Gateway, Asks, Exists, Stat, Load,
             Refused, Answered, Failed, CapCooldown, CheckCooldown, Arm
    <3> QED BY <1>1, <3>2, <3>3 DEF AuthNext
  <2>2. token[t] # NoToken
    BY <1>1, TokenFacts
  <2>3. clock < CooldownFor(t)
    <3>1. PrimaryToken(t) # Fallback
      BY <1>1, <2>2, TokenFacts DEF PrimaryToken
    <3> QED BY <1>1, <2>1, <3>1 DEF Select, Takes, AuthIInv, AuthTypeOK, ThreadTyped
  <2>4. cache = token[t] /\ clock < cooldown
    <3>1. clock \in Nat
      BY <1>1 DEF AuthIInv, AuthTypeOK, SharedTyped
    <3>2. CASE cache # token[t]
      BY <2>2, <2>3, <3>1, <3>2 DEF CooldownFor
    <3>3. CASE cache = token[t]
      BY <2>3, <3>3 DEF CooldownFor
    <3> QED BY <3>2, <3>3
  <2> QED BY <1>1, <2>4 DEF AuthIInv, ArmedOverInstalled, CoolingDown
<1>2. AuthIInv /\ [AuthNext]_authVars
        => [\A t \in Thread :
              pc[t] = "select" /\ token[t] \in Login /\ token'[t] = Fallback
                => armedOver = token[t]]_authVars
  BY <1>1
<1> QED BY <1>2, AuthInvariance, PTL DEF AuthSpec, NewLoginIsTried

-----------------------------------------------------------------------------
(* The walk: RouterFallback. *)

\* A task keeps its fields and knows the lengths of its client's request; the
\* rest of its record does not matter here.
Shaped(q) ==
    /\ q \in [pc : {"idle", "pick", "calling"}, client : {q.client}, stack : {q.stack},
              tries : {q.tries}, first : {q.first}, hops : {q.hops},
              inPlace : BOOLEAN, popped : BOOLEAN, call : {q.call}]
    /\ q.client.prompt \in Nat /\ q.client.want \in Nat

\* The system prompt is among the messages until an attempt took it out.
PromptKept(q) == q.client.system => q.inPlace \/ q.popped

\* What CallIntact says of one task.
Intact(q) ==
    /\ q.client.want > 0 => q.call.max > 0
    /\ OutputCap[q.call.d] > 0 => q.call.max <= OutputCap[q.call.d]
    /\ q.call.room >= 1 => q.call.max <= q.call.room
    /\ q.call.inPlace => q.call.d \notin Anthropic
    /\ q.client.system => q.call.inPlace \/ q.call.atTop \/ q.popped

TaskSound(q) ==
    /\ Shaped(q)
    /\ PromptKept(q)
    /\ q.pc = "calling" => Intact(q)

TasksSound ==
    /\ DOMAIN req = Requests
    /\ \A r \in Requests : TaskSound(req[r])

\* What a breaker has left is at least what the latest quota error asked for,
\* and setting it anew does not take time away; there is none for Claude.
BreakerSound ==
    /\ breaker \in [AllDeployments -> [left : Nat, ttl : Nat]]
    /\ due \in [AllDeployments -> Nat]
    /\ \A d \in AllDeployments :
          /\ due[d] <= breaker[d].left /\ breaker[d].left <= breaker[d].ttl
          /\ d \in Claude => due[d] = 0

\* The invariant of the proofs.
Sound == available \subseteq AllDeployments /\ TasksSound /\ BreakerSound

-----------------------------------------------------------------------------
(* The budget of a call. *)

\* The lesser of two numbers.
LEMMA MinOfTwo ==
    ASSUME NEW a \in Int, NEW b \in Int
    PROVE  Min({a, b}) = IF a <= b THEN a ELSE b
<1> DEFINE m == IF a <= b THEN a ELSE b
<1>1. m \in {a, b} /\ \A y \in {a, b} : m <= y
  OBVIOUS
<1>2. \A x \in {a, b} : (\A y \in {a, b} : x <= y) => x = m
  OBVIOUS
<1> QED
  BY <1>1, <1>2 DEF Min

\* The greater of two numbers.
LEMMA MaxOfTwo ==
    ASSUME NEW a \in Int, NEW b \in Int
    PROVE  Max({a, b}) = IF a >= b THEN a ELSE b
<1> DEFINE m == IF a >= b THEN a ELSE b
<1>1. m \in {a, b} /\ \A y \in {a, b} : m >= y
  OBVIOUS
<1>2. \A x \in {a, b} : (\A y \in {a, b} : x >= y) => x = m
  OBVIOUS
<1> QED
  BY <1>1, <1>2 DEF Max

\* A bound of zero is none.
LEMMA PositiveMinOf ==
    ASSUME NEW a \in Int, NEW b \in Nat
    PROVE  PositiveMin(a, b) = IF b = 0 \/ a <= b THEN a ELSE b
  BY MinOfTwo DEF PositiveMin

\* max_tokens stays positive and fits what the deployment has room for, and its
\* ceiling.
LEMMA BudgetFits ==
    ASSUME NEW d \in AllDeployments, NEW tokens \in Nat, NEW want \in Nat
    PROVE  LET max == MaxTokens(d, tokens, want)
           IN  /\ max \in Int
               /\ want > 0 => max > 0
               /\ OutputCap[d] > 0 => max <= OutputCap[d]
               /\ Window[d] - tokens >= 1 => max <= Window[d] - tokens
<1> DEFINE room == Window[d] - tokens
           c == Clamped(d, tokens, want)
<1>1. Window[d] \in Nat /\ ParamMax[d] \in Nat /\ OutputCap[d] \in Nat
  BY RouterAssumption
<1>2. /\ c \in Int
      /\ want > 0 => c > 0
      /\ room >= 1 => c <= room
  <2>1. CASE Window[d] = 0
    BY <1>1, <2>1 DEF Clamped
  <2>2. CASE Window[d] # 0 /\ room < 1
    BY <1>1, <2>2 DEF Clamped, Or
  <2>3. CASE Window[d] # 0 /\ room >= 1
    <3>1. PositiveMin(room, ParamMax[d]) = IF ParamMax[d] = 0 \/ room <= ParamMax[d] THEN room ELSE ParamMax[d]
      BY <1>1, PositiveMinOf
    <3> DEFINE wanted == IF want = 0 THEN Or(ParamMax[d], 4096) ELSE want
    <3>2. wanted \in Nat /\ (want > 0 => wanted = want)
      BY <1>1 DEF Or
    <3>3. c = IF wanted > room THEN PositiveMin(room, ParamMax[d]) ELSE want
      BY <1>1, <2>3 DEF Clamped
    <3>4. wanted <= room => want <= room
      BY <1>1, <2>3, <3>2 
    <3> HIDE DEF wanted, c
    <3> QED
      BY <1>1, <2>3, <3>1, <3>2, <3>3, <3>4
  <2> QED
    BY <1>1, <2>1, <2>2, <2>3
<1>3. MaxTokens(d, tokens, want) = PositiveMin(c, OutputCap[d])
  BY DEF MaxTokens
<1> HIDE DEF c
<1>4. PositiveMin(c, OutputCap[d]) = IF OutputCap[d] = 0 \/ c <= OutputCap[d] THEN c ELSE OutputCap[d]
  BY <1>1, <1>2, PositiveMinOf
<1> QED
  BY <1>1, <1>2, <1>3, <1>4

-----------------------------------------------------------------------------
(* One task. *)

LEMMA IdleSound == TaskSound(Idle) /\ Idle.pc = "idle"
<1>1. /\ NoClient.prompt = 0 /\ NoClient.want = 0 /\ NoClient.system = FALSE
  BY DEF NoClient
<1>2. Idle.client = NoClient /\ Idle.pc = "idle"
  BY DEF Idle
<1>3. Shaped(Idle)
  BY <1>1 DEF Shaped, Idle
<1> QED
  BY <1>1, <1>2, <1>3 DEF TaskSound, PromptKept

\* The next attempt has the same client and messages.
LEMMA RetrySound ==
    ASSUME NEW q, TaskSound(q), NEW n
    PROVE  TaskSound(Retry(q, n)) /\ Retry(q, n).pc = "pick"
  BY DEF TaskSound, Shaped, PromptKept, Retry

\* So has the next group, and a task that has no group left is idle.
LEMMA FailSound ==
    ASSUME NEW q, TaskSound(q), NEW err
    PROVE  TaskSound(Fail(q, err)) /\ Fail(q, err).pc # "calling"
<1>1. \/ Fail(q, err) = Idle
      \/ \E stack, hops : Fail(q, err) =
            [q EXCEPT !.pc = "pick", !.tries = 0, !.first = TRUE, !.hops = hops, !.call = NoCall,
                      !.stack = stack]
  BY Zenon DEF Fail
<1>2. CASE Fail(q, err) = Idle
  BY <1>2, IdleSound
<1>3. ASSUME NEW stack, NEW hops,
             Fail(q, err) =
               [q EXCEPT !.pc = "pick", !.tries = 0, !.first = TRUE, !.hops = hops, !.call = NoCall,
                         !.stack = stack]
      PROVE  TaskSound(Fail(q, err)) /\ Fail(q, err).pc # "calling"
  BY <1>3 DEF TaskSound, Shaped, PromptKept
<1> QED
  BY <1>1, <1>2, <1>3

LEMMA AfterErrorSound ==
    ASSUME NEW q, TaskSound(q), NEW d, NEW err, NEW p \in AfterError(q, d, err)
    PROVE  TaskSound(p) /\ p.pc # "calling"
<1>1. (\E n : p = Retry(q, n)) \/ p = Fail(q, err)
  BY DEF AfterError
<1> QED
  BY <1>1, RetrySound, FailSound

\* A call that goes out fits its deployment.
LEMMA CallSound ==
    ASSUME NEW q, TaskSound(q), NEW d \in AllDeployments
    PROVE  TaskSound(Called(q, d)) /\ Called(q, d).call.d = d
<1> DEFINE p == Called(q, d)
           system == MoveSystem(q, d)
           tokens == Tokens([q EXCEPT !.inPlace = system.inPlace])
           max == MaxTokens(d, tokens, q.client.want)
<1>1. /\ system = [inPlace |-> q.inPlace /\ ~Moves(d), atTop |-> q.inPlace /\ Moves(d)]
      /\ q.inPlace \in BOOLEAN /\ q.popped \in BOOLEAN
      /\ q.client.prompt \in Nat /\ q.client.want \in Nat
      /\ Moves(d) \in BOOLEAN
  BY DEF TaskSound, Shaped, MoveSystem, Moves
<1>2. /\ system.inPlace \in BOOLEAN /\ system.atTop \in BOOLEAN
      /\ q.inPlace => system.inPlace \/ system.atTop
      /\ system.inPlace => ~Moves(d)
  <2> HIDE DEF system
  <2> QED
    BY Zenon, <1>1
<1>3. system.inPlace => d \notin Anthropic
  BY <1>2, RouterAssumption DEF Moves
<1>4. tokens \in Nat
  BY <1>1, RouterAssumption DEF Tokens
<1> HIDE DEF system, tokens
<1>5. q.client.want \in Nat
  BY <1>1
<1>6. /\ q.client.want > 0 => max > 0
      /\ OutputCap[d] > 0 => max <= OutputCap[d]
      /\ Window[d] - tokens >= 1 => max <= Window[d] - tokens
  BY <1>4, <1>5, BudgetFits
<1> HIDE DEF max
<1> DEFINE call == [d |-> d, inPlace |-> system.inPlace, atTop |-> system.atTop,
                    max |-> max, room |-> Window[d] - tokens]
<1> DEFINE popped == q.popped \/ system.atTop
<1>7. p = [q EXCEPT !.pc = "calling", !.inPlace = system.inPlace, !.popped = popped, !.call = call]
  BY DEF system, tokens, max, call, Called
<1>8. popped \in BOOLEAN
  OBVIOUS
<1> HIDE DEF call, p, popped
<1>9. /\ p.pc = "calling" /\ p.client = q.client /\ p.call = call
      /\ p.inPlace = system.inPlace /\ p.popped = popped
  BY <1>7 DEF TaskSound, Shaped
<1>10. Shaped(p)
  BY <1>2, <1>7, <1>8 DEF TaskSound, Shaped
<1>11. q.client.system => system.inPlace \/ popped
  BY Zenon, <1>2 DEF TaskSound, PromptKept, popped
<1>12. /\ call.d = d /\ call.inPlace = system.inPlace /\ call.atTop = system.atTop
       /\ call.max = max /\ call.room = Window[d] - tokens
  BY DEF call
<1>13. PromptKept(p)
  BY Zenon, <1>9, <1>11 DEF PromptKept
<1>14. Intact(p)
  <2>1. p.client.system => p.call.inPlace \/ p.call.atTop \/ p.popped
    BY Zenon, <1>2, <1>9, <1>11, <1>12 DEF popped, TaskSound, PromptKept
  <2>2. p.call.inPlace => p.call.d \notin Anthropic
    BY Zenon, <1>3, <1>9, <1>12
  <2>3. /\ p.client.want > 0 => p.call.max > 0
        /\ OutputCap[p.call.d] > 0 => p.call.max <= OutputCap[p.call.d]
        /\ p.call.room >= 1 => p.call.max <= p.call.room
    BY Zenon, <1>6, <1>9, <1>12
  <2> QED
    BY <2>1, <2>2, <2>3 DEF Intact
<1> QED
  BY <1>9, <1>10, <1>12, <1>13, <1>14 DEF TaskSound, p

-----------------------------------------------------------------------------
(* The invariant. *)

\* A step that gives one task a sound record keeps the others.
LEMMA OneTask ==
    ASSUME TasksSound, NEW r \in Requests, NEW p, TaskSound(p), req' = [req EXCEPT ![r] = p]
    PROVE  TasksSound'
  BY DEF TasksSound, TaskSound, Shaped, PromptKept, Intact

LEMMA InitSound == Init => Sound
<1> SUFFICES ASSUME Init
             PROVE  Sound
  OBVIOUS
<1>1. available \subseteq AllDeployments
  BY RouterAssumption DEF Init, Routes
<1>2. TasksSound
  <2>1. \A r \in Requests : req[r] = Idle
    BY DEF Init
  <2>2. DOMAIN req = Requests
    BY DEF Init
  <2> QED
    BY <2>1, <2>2, IdleSound DEF TasksSound
<1>3. BreakerSound
  BY DEF Init, BreakerSound, Closed
<1> QED
  BY <1>1, <1>2, <1>3 DEF Sound

\* A request arrives.
LEMMA ArriveSound ==
    ASSUME Sound, NEW r \in Requests, Arrive(r)
    PROVE  TasksSound'
<1>1. PICK c \in Clients :
         req' = [req EXCEPT ![r] = [Idle EXCEPT !.pc = "pick", !.client = c, !.hops = 1,
                                        !.inPlace = c.system, !.stack = <<Frame(RootOf(c), 0, FALSE)>>]]
  BY DEF Arrive
<1>2. c.prompt \in Nat /\ c.want \in Nat /\ c.system \in BOOLEAN
  BY RouterAssumption DEF Asked
<1> DEFINE stack == <<Frame(RootOf(c), 0, FALSE)>>
           p == [Idle EXCEPT !.pc = "pick", !.client = c, !.hops = 1, !.inPlace = c.system, !.stack = stack]
<1>3. TaskSound(p)
  <2> HIDE DEF stack
  <2>1. Shaped(p)
    BY <1>2 DEF Shaped, Idle
  <2>2. p.pc = "pick" /\ p.client = c /\ p.inPlace = c.system
    BY DEF Idle
  <2> QED
    BY <2>1, <2>2 DEF TaskSound, PromptKept
<1>4. req' = [req EXCEPT ![r] = p]
  BY <1>1
<1> QED
  BY <1>3, <1>4, OneTask DEF Sound

\* A deployment is skipped, or answers with an error: no call goes out, and
\* the task goes on with another attempt, another group or another request.
LEMMA ErrorSound ==
    ASSUME Sound, NEW r \in Requests, Skip(r) \/ QuotaError(r) \/ OtherError(r)
    PROVE  /\ TasksSound'
           /\ \A t \in Requests : req'[t].pc = "calling" => req[t].pc = "calling"
<1>1. TaskSound(req[r]) /\ DOMAIN req = Requests
  BY DEF Sound, TasksSound
<1>2. PICK d, err : \E q \in AfterError(req[r], d, err) : req' = [req EXCEPT ![r] = q]
  <2>1. CASE Skip(r)
    BY <2>1 DEF Skip
  <2>2. CASE QuotaError(r)
    BY <2>2 DEF QuotaError
  <2>3. CASE OtherError(r)
    BY <2>3 DEF OtherError
  <2> QED
    BY <2>1, <2>2, <2>3
<1>3. PICK p \in AfterError(req[r], d, err) : req' = [req EXCEPT ![r] = p]
  BY <1>2
<1>4. TaskSound(p) /\ p.pc # "calling"
  BY <1>1, <1>3, AfterErrorSound
<1> QED
  BY <1>1, <1>3, <1>4, OneTask DEF Sound

\* A call goes out: to a deployment no quota error keeps closed.
LEMMA CallStepSound ==
    ASSUME Sound, NEW r \in Requests, Call(r)
    PROVE  /\ TasksSound'
           /\ due[req'[r].call.d] = 0
           /\ \A t \in Requests : t # r => req'[t] = req[t]
<1>1. TaskSound(req[r]) /\ DOMAIN req = Requests
  BY DEF Sound, TasksSound
<1>2. PICK d \in Candidates(req[r]) :
         /\ d \in Claude \/ breaker[d].left = 0
         /\ req' = [req EXCEPT ![r] = Called(req[r], d)]
  BY DEF Call
<1>3. d \in AllDeployments
  BY DEF Candidates, Sound
<1>4. TaskSound(Called(req[r], d)) /\ Called(req[r], d).call.d = d
  BY <1>1, <1>3, CallSound
<1>5. due[d] = 0
  BY <1>2, <1>3 DEF Sound, BreakerSound
<1>6. req'[r] = Called(req[r], d) /\ \A t \in Requests : t # r => req'[t] = req[t]
  BY <1>1, <1>2
<1> QED
  BY <1>2, <1>4, <1>5, <1>6, OneTask DEF Sound

\* An answer ends the request.
LEMMA SucceedSound ==
    ASSUME Sound, NEW r \in Requests, Succeed(r)
    PROVE  /\ TasksSound'
           /\ \A t \in Requests : req'[t].pc = "calling" => req[t].pc = "calling"
  BY IdleSound, OneTask DEF Sound, TasksSound, Succeed

\* The breaker is opened by quota errors, set anew when it is open, and runs
\* out with what the latest error asked for.
LEMMA BreakerStepSound ==
    ASSUME Sound, Next
    PROVE  BreakerSound'
<1>1. /\ breaker \in [AllDeployments -> [left : Nat, ttl : Nat]]
      /\ due \in [AllDeployments -> Nat]
      /\ \A d \in AllDeployments :
            /\ due[d] <= breaker[d].left /\ breaker[d].left <= breaker[d].ttl
            /\ d \in Claude => due[d] = 0
  BY DEF Sound, BreakerSound
<1>2. CASE Tick
  <2>1. /\ breaker' = [d \in AllDeployments |-> Passed(breaker[d])]
        /\ due' = [d \in AllDeployments |-> IF due[d] >= 1 THEN due[d] - 1 ELSE 0]
    <3>1. \A d \in AllDeployments : Max({due[d] - 1, 0}) = IF due[d] >= 1 THEN due[d] - 1 ELSE 0
      <4>1. \A d \in AllDeployments : Max({due[d] - 1, 0}) = IF due[d] - 1 >= 0 THEN due[d] - 1 ELSE 0
        BY <1>1, MaxOfTwo
      <4> QED
        BY <1>1, <4>1
    <3> QED
      BY <1>2, <3>1 DEF Tick
  <2>2. \A d \in AllDeployments :
           /\ Passed(breaker[d]) \in [left : Nat, ttl : Nat]
           /\ Passed(breaker[d]).left = IF breaker[d].left <= 1 THEN 0 ELSE breaker[d].left - 1
           /\ Passed(breaker[d]).left <= Passed(breaker[d]).ttl
    BY <1>1 DEF Passed, Closed
  <2> QED
    BY <1>1, <2>1, <2>2 DEF BreakerSound
<1>3. ASSUME NEW r \in Requests, Skip(r)
      PROVE  BreakerSound'
  <2>1. PICK d : breaker' = breaker \/ breaker' = [breaker EXCEPT ![d] = Open(breaker[d].ttl)]
    BY <1>3 DEF Skip
  <2>2. due' = due
    BY <1>3 DEF Skip
  <2> QED
    BY <1>1, <2>1, <2>2 DEF BreakerSound, Open
<1>4. ASSUME NEW r \in Requests, QuotaError(r)
      PROVE  BreakerSound'
  <2> DEFINE d == req[r].call.d
  <2>1. PICK ttl \in Ttls :
           /\ breaker' = Trip(d, ttl)
           /\ due' = [due EXCEPT ![d] = IF d \in Claude THEN 0 ELSE ttl]
    BY <1>4 DEF QuotaError
  <2>2. ttl \in Nat
    BY RouterAssumption
  <2> HIDE DEF d
  <2>3. /\ breaker' \in [AllDeployments -> [left : Nat, ttl : Nat]]
        /\ due' \in [AllDeployments -> Nat]
    BY <1>1, <2>1, <2>2 DEF Trip, Open
  <2>4. \A e \in AllDeployments :
           /\ e # d => breaker'[e] = breaker[e] /\ due'[e] = due[e]
           /\ e = d /\ d \in Claude => breaker'[e] = breaker[e] /\ due'[e] = 0
           /\ e = d /\ d \notin Claude => breaker'[e] = Open(ttl) /\ due'[e] = ttl
    BY <1>1, <2>1 DEF Trip
  <2>5. \A e \in AllDeployments :
           /\ due'[e] <= breaker'[e].left /\ breaker'[e].left <= breaker'[e].ttl
           /\ e \in Claude => due'[e] = 0
    BY <1>1, <2>2, <2>4 DEF Open
  <2> QED
    BY <2>3, <2>5 DEF BreakerSound
<1>5. ASSUME UNCHANGED <<breaker, due>>
      PROVE  BreakerSound'
  BY <1>1, <1>5 DEF BreakerSound
<1> QED
  BY <1>2, <1>3, <1>4, <1>5 DEF Next, Step, Answer, Arrive, Call, Succeed, OtherError

LEMMA NextSound ==
    ASSUME Sound, [Next]_vars
    PROVE  Sound'
<1>1. CASE UNCHANGED vars
  BY <1>1 DEF Sound, TasksSound, TaskSound, Shaped, PromptKept, Intact, BreakerSound, vars
<1>2. ASSUME Next
      PROVE  Sound'
  <2>1. (available \subseteq AllDeployments)'
    BY <1>2 DEF Sound, Next, Tick, Step, Answer, Arrive, Skip, Call, Succeed, QuotaError, OtherError
  <2>2. TasksSound'
    <3>1. CASE Tick
      BY <3>1 DEF Tick, Sound, TasksSound, TaskSound, Shaped, PromptKept, Intact
    <3>2. ASSUME NEW r \in Requests, Arrive(r) \/ Step(r)
          PROVE  TasksSound'
      BY <3>2, ArriveSound, ErrorSound, CallStepSound, SucceedSound DEF Step, Answer
    <3> QED
      BY <1>2, <3>1, <3>2 DEF Next
  <2> QED
    BY <1>2, <2>1, <2>2, BreakerStepSound DEF Sound
<1> QED
  BY <1>1, <1>2

-----------------------------------------------------------------------------
(* Sequences that are filtered and counted by recursive functions. *)

\* k[i] is what Within keeps of the first i members of s.
Keeps(k, s, X) ==
    /\ k[0] = << >>
    /\ \A i \in 1..Len(s) : k[i] = IF s[i] \in X THEN Append(k[i-1], s[i]) ELSE k[i-1]

\* Within keeps members one after the other.
LEMMA WithinSteps ==
    ASSUME NEW T, NEW s \in Seq(T), NEW X
    PROVE  \E k \in [0..Len(s) -> Seq(T \cap X)] : Keeps(k, s, X) /\ Within(s, X) = k[Len(s)]
<1> DEFINE S == Seq(T \cap X)
           n == Len(s)
           G == [p \in (1..n) \X S |-> IF s[p[1]] \in X THEN Append(p[2], s[p[1]]) ELSE p[2]]
           Value(f, i) == IF i = 0 THEN << >>
                          ELSE IF s[i] \in X THEN Append(f[i-1], s[i])
                          ELSE f[i-1]
           kept == CHOOSE f : f = [i \in 0..n |-> Value(f, i)]
<1>1. n \in Nat /\ \A i \in 1..n : s[i] \in T
  BY LenProperties, ElementOfSeq
<1>2. G \in [(1..n) \X S -> S]
  <2>1. ASSUME NEW i \in 1..n, NEW u \in S
        PROVE  (IF s[i] \in X THEN Append(u, s[i]) ELSE u) \in S
    <3>1. CASE s[i] \in X
      BY <1>1, <2>1, <3>1, AppendProperties
    <3> QED
      BY <3>1
  <2> HIDE DEF S
  <2> QED
    BY <2>1
<1>3. << >> \in S
  BY EmptySeq
<1>4. PICK k \in [0..n -> S] : k[0] = << >> /\ \A i \in 1..n : k[i] = G[<<i, k[i-1]>>]
  <2> DEFINE e == << >>
  <2>1. e \in S /\ n \in Nat
    BY <1>1, <1>3
  <2> HIDE DEF S, n, G, Value, kept, e
  <2>2. \E f \in [0..n -> S] : Follows(f, n, e, G)
    BY <1>2, <2>1, Recursion
  <2> QED
    BY <2>2 DEF e, Follows
<1>5. \A i \in 1..n : k[i] = IF s[i] \in X THEN Append(k[i-1], s[i]) ELSE k[i-1]
  <2> HIDE DEF S
  <2> TAKE i \in 1..n
  <2>1. <<i, k[i-1]>> \in (1..n) \X S
    BY <1>1, <1>4
  <2> QED
    BY <1>4, <2>1
<1>6. k = [i \in 0..n |-> Value(k, i)]
  <2>1. ASSUME NEW i \in 0..n
        PROVE  k[i] = Value(k, i)
    <3>1. i # 0 => i \in 1..n
      BY <1>1
    <3> QED
      BY <1>4, <1>5, <3>1
  <2> HIDE DEF S, Value
  <2> QED
    BY <1>4, <2>1
<1>7. kept = [i \in 0..n |-> Value(kept, i)]
  BY <1>6
<1> HIDE DEF kept
<1>8. \A i \in 0..n : kept[i] = k[i]
  <2> DEFINE P == {i \in 0..n : kept[i] = k[i]}
  <2>1. 0 \in P
    BY <1>1, <1>4, <1>7
  <2>2. ASSUME NEW i \in 0..n, i \in P, i < n
        PROVE  i + 1 \in P
    <3>1. i + 1 \in 1..n /\ i + 1 \in 0..n /\ (i + 1) - 1 = i /\ i + 1 # 0
      BY <1>1, <2>2
    <3>2. kept[i+1] = Value(kept, i + 1)
      BY <1>7, <3>1
    <3>3. kept[i+1] = IF s[i+1] \in X THEN Append(kept[i], s[i+1]) ELSE kept[i]
      BY <3>1, <3>2
    <3>4. k[i+1] = IF s[i+1] \in X THEN Append(k[i], s[i+1]) ELSE k[i]
      BY <1>5, <3>1
    <3> QED
      BY <2>2, <3>1, <3>3, <3>4
  <2>3. \A i \in 0..n : i \in P
    <3> HIDE DEF P, n
    <3> QED
      BY <1>1, <2>1, <2>2, Induction
  <2> QED
    BY <2>3
<1>9. Within(s, X) = kept[n]
  BY DEF Within, kept
<1>10. Keeps(k, s, X)
  BY <1>4, <1>5 DEF Keeps
<1>11. kept[n] = k[n]
  BY <1>1, <1>8
<1> HIDE DEF S, n
<1> QED
  BY <1>4, <1>9, <1>10, <1>11 DEF S, n

\* Within keeps members, and no more of them than there were.
LEMMA WithinType ==
    ASSUME NEW T, NEW s \in Seq(T), NEW X
    PROVE  Within(s, X) \in Seq(T \cap X) /\ Within(s, X) \in Seq(T) /\ Len(Within(s, X)) <= Len(s)
<1> DEFINE n == Len(s)
           S == Seq(T \cap X)
<1>1. n \in Nat /\ \A i \in 1..n : s[i] \in T
  BY LenProperties, ElementOfSeq
<1>2. PICK k \in [0..n -> S] : Keeps(k, s, X) /\ Within(s, X) = k[n]
  BY WithinSteps
<1>3. \A i \in 0..n : Len(k[i]) <= i
  <2> USE DEF Keeps
  <2> DEFINE P == {i \in 0..n : Len(k[i]) <= i}
  <2>1. 0 \in P
    BY <1>1, <1>2, EmptySeq
  <2>2. ASSUME NEW i \in 0..n, i \in P, i < n
        PROVE  i + 1 \in P
    <3>1. i + 1 \in 1..n /\ i + 1 \in 0..n /\ (i + 1) - 1 = i
      BY <1>1, <2>2
    <3>2. k[i] \in Seq(T \cap X) /\ Len(k[i]) \in Nat
      BY <1>2, LenProperties
    <3>3. s[i+1] \in X => Len(Append(k[i], s[i+1])) = Len(k[i]) + 1
      BY <1>1, <3>1, <3>2, AppendProperties
    <3>4. k[i+1] = IF s[i+1] \in X THEN Append(k[i], s[i+1]) ELSE k[i]
      BY <1>2, <3>1
    <3>5. CASE s[i+1] \in X
      BY <2>2, <3>1, <3>2, <3>3, <3>4, <3>5
    <3>6. CASE s[i+1] \notin X
      BY <2>2, <3>1, <3>2, <3>4, <3>6
    <3> QED
      BY <3>5, <3>6
  <2>3. \A i \in 0..n : i \in P
    <3> HIDE DEF P, n
    <3> QED
      BY <1>1, <2>1, <2>2, Induction
  <2> QED
    BY <2>3
<1>4. k[n] \in Seq(T \cap X)
  BY <1>1, <1>2
<1> QED
  BY <1>1, <1>2, <1>3, <1>4, SeqMonotonic

\* h[i] is the hops of the first i members of s.
Counts(h, a, s) ==
    h[0] = 0 /\ \A i \in 1..Len(s) : h[i] = h[i-1] + 1 + ChainBound(a, s[i])

\* HopsOf counts them one after the other.
LEMMA HopsSteps ==
    ASSUME NEW a, NEW T, \A g \in T : ChainBound(a, g) \in Nat, NEW s \in Seq(T)
    PROVE  \E h \in [0..Len(s) -> Nat] : Counts(h, a, s) /\ HopsOf(a, s) = h[Len(s)]
<1> DEFINE n == Len(s)
           G == [p \in (1..n) \X Nat |-> p[2] + 1 + ChainBound(a, s[p[1]])]
           Value(f, i) == IF i = 0 THEN 0 ELSE f[i-1] + 1 + ChainBound(a, s[i])
           hops == CHOOSE f : f = [i \in 0..n |-> Value(f, i)]
<1>1. n \in Nat /\ \A i \in 1..n : s[i] \in T /\ ChainBound(a, s[i]) \in Nat
  BY LenProperties, ElementOfSeq
<1>2. G \in [(1..n) \X Nat -> Nat]
  BY <1>1
<1>3. PICK h \in [0..n -> Nat] : Follows(h, n, 0, G)
  <2> HIDE DEF n, G, Value, hops
  <2> QED
    BY <1>1, <1>2, Recursion
<1>4. h[0] = 0 /\ \A i \in 1..n : h[i] = h[i-1] + 1 + ChainBound(a, s[i])
  <2> HIDE DEF n
  <2>1. ASSUME NEW i \in 1..n
        PROVE  h[i] = h[i-1] + 1 + ChainBound(a, s[i])
    <3> HIDE DEF G
    <3>1. i - 1 \in 0..n
      BY <1>1
    <3>2. <<i, h[i-1]>> \in (1..n) \X Nat
      BY <1>3, <3>1
    <3> USE DEF G
    <3>3. G[<<i, h[i-1]>>] = h[i-1] + 1 + ChainBound(a, s[i])
      BY <3>2
    <3> HIDE DEF G
    <3> QED
      BY <1>3, <3>3 DEF Follows
  <2> QED
    BY <1>3, <2>1 DEF Follows
<1>5. h = [i \in 0..n |-> Value(h, i)]
  <2>1. ASSUME NEW i \in 0..n
        PROVE  h[i] = Value(h, i)
    <3>1. i # 0 => i \in 1..n
      BY <1>1
    <3> QED
      BY <1>4, <3>1
  <2> HIDE DEF Value
  <2> QED
    BY <1>3, <2>1
<1>6. hops = [i \in 0..n |-> Value(hops, i)]
  BY <1>5
<1> HIDE DEF hops
<1>7. \A i \in 0..n : hops[i] = h[i]
  <2> DEFINE P == {i \in 0..n : hops[i] = h[i]}
  <2>1. 0 \in P
    BY <1>1, <1>4, <1>6
  <2>2. ASSUME NEW i \in 0..n, i \in P, i < n
        PROVE  i + 1 \in P
    <3>1. i + 1 \in 1..n /\ i + 1 \in 0..n /\ (i + 1) - 1 = i /\ i + 1 # 0
      BY <1>1, <2>2
    <3>2. hops[i+1] = Value(hops, i + 1)
      BY <1>6, <3>1
    <3>3. hops[i+1] = hops[i] + 1 + ChainBound(a, s[i+1])
      BY <3>1, <3>2
    <3>4. h[i+1] = h[i] + 1 + ChainBound(a, s[i+1])
      BY <1>4, <3>1
    <3> QED
      BY <2>2, <3>1, <3>3, <3>4
  <2>3. \A i \in 0..n : i \in P
    <3> HIDE DEF P, n
    <3> QED
      BY <1>1, <2>1, <2>2, Induction
  <2> QED
    BY <2>3
<1>8. HopsOf(a, s) = hops[n]
  BY DEF HopsOf, hops
<1>9. Counts(h, a, s)
  BY <1>4 DEF Counts
<1>10. hops[n] = h[n]
  BY <1>1, <1>7
<1> HIDE DEF n
<1> QED
  BY <1>3, <1>8, <1>9, <1>10 DEF n

\* No hops for no members.
LEMMA HopsEmpty ==
    ASSUME NEW a, NEW T, \A g \in T : ChainBound(a, g) \in Nat
    PROVE  HopsOf(a, << >>) = 0
<1> DEFINE e == << >>
<1>1. e \in Seq(T) /\ Len(e) = 0
  BY EmptySeq
<1> HIDE DEF e
<1>2. PICK h \in [0..Len(e) -> Nat] : Counts(h, a, e) /\ HopsOf(a, e) = h[Len(e)]
  BY <1>1, HopsSteps
<1> QED
  BY <1>1, <1>2 DEF Counts, e

LEMMA HopsNat ==
    ASSUME NEW a, NEW T, \A g \in T : ChainBound(a, g) \in Nat, NEW s \in Seq(T)
    PROVE  HopsOf(a, s) \in Nat
<1>1. PICK h \in [0..Len(s) -> Nat] : Counts(h, a, s) /\ HopsOf(a, s) = h[Len(s)]
  BY HopsSteps
<1>2. Len(s) \in Nat
  BY LenProperties
<1> QED
  BY <1>1, <1>2

\* Trying the first member, and then the others.
LEMMA HopsHead ==
    ASSUME NEW a, NEW T, \A g \in T : ChainBound(a, g) \in Nat, NEW s \in Seq(T), s # << >>
    PROVE  HopsOf(a, s) = 1 + ChainBound(a, Head(s)) + HopsOf(a, Tail(s))
<1> DEFINE n == Len(s)
           t == Tail(s)
           m == Len(t)
           first == 1 + ChainBound(a, s[1])
<1>1. n \in Nat /\ n # 0 /\ t \in Seq(T) /\ m = n - 1 /\ Head(s) = s[1]
  BY HeadTailProperties, EmptySeq
<1>2. \A i \in 1..m : t[i] = s[i+1]
  BY HeadTailProperties
<1>3. \A i \in 1..n : s[i] \in T
  BY ElementOfSeq
<1>4. PICK h \in [0..n -> Nat] : Counts(h, a, s) /\ HopsOf(a, s) = h[n]
  BY HopsSteps
<1>5. PICK g \in [0..m -> Nat] : Counts(g, a, t) /\ HopsOf(a, t) = g[m]
  BY <1>1, HopsSteps
<1>6. h[0] = 0 /\ \A i \in 1..n : h[i] = h[i-1] + 1 + ChainBound(a, s[i])
  BY <1>4 DEF Counts
<1>7. g[0] = 0 /\ \A i \in 1..m : g[i] = g[i-1] + 1 + ChainBound(a, t[i])
  BY <1>5 DEF Counts
<1> HIDE DEF n, t, m
<1>8. m \in Nat /\ m + 1 = n /\ 1 \in 1..n
  BY <1>1
<1>9. first \in Nat
  BY <1>3, <1>8
<1> DEFINE P == {i \in 0..m : h[i+1] = first + g[i]}
<1>10. 0 \in P
  <2>1. h[1] = h[0] + 1 + ChainBound(a, s[1])
    BY <1>6, <1>8
  <2> HIDE DEF Counts
  <2> QED
    BY <1>3, <1>6, <1>7, <1>8, <2>1
<1> HIDE DEF first
<1>11. ASSUME NEW i \in 0..m, i \in P, i < m
       PROVE  i + 1 \in P
  <2>1. i + 1 \in 1..m /\ i + 2 \in 1..n /\ (i + 1) - 1 = i /\ (i + 2) - 1 = i + 1
    BY <1>8, <1>11
  <2>2. h[i+2] = h[i+1] + 1 + ChainBound(a, s[i+2])
    BY <1>6, <2>1
  <2>3. g[i+1] = g[i] + 1 + ChainBound(a, t[i+1])
    BY <1>7, <2>1
  <2>4. t[i+1] = s[i+2]
    BY <1>2, <2>1
  <2>5. ChainBound(a, s[i+2]) \in Nat
    BY <1>3, <2>1
  <2>6. g[i] \in Nat /\ h[i+1] = first + g[i]
    BY <1>5, <1>11
  <2>7. h[i+2] = first + g[i+1]
    BY <1>9, <2>2, <2>3, <2>4, <2>5, <2>6
  <2> QED
    BY <2>1, <2>7
<1>12. \A i \in 0..m : i \in P
  <2> HIDE DEF P
  <2> QED
    BY <1>8, <1>10, <1>11, Induction
<1>13. h[n] = first + g[m]
  BY <1>8, <1>12
<1> QED
  BY <1>1, <1>4, <1>5, <1>13 DEF first, t

\* One more member.
LEMMA HopsAppend ==
    ASSUME NEW a, NEW T, \A g \in T : ChainBound(a, g) \in Nat, NEW s \in Seq(T), NEW x \in T
    PROVE  HopsOf(a, Append(s, x)) = HopsOf(a, s) + 1 + ChainBound(a, x)
<1> DEFINE n == Len(s)
           u == Append(s, x)
<1>1. n \in Nat /\ u \in Seq(T) /\ Len(u) = n + 1 /\ u[n+1] = x
  BY AppendProperties, LenProperties
<1>2. \A i \in 1..n : u[i] = s[i]
  BY AppendProperties
<1>3. PICK h \in [0..n -> Nat] : Counts(h, a, s) /\ HopsOf(a, s) = h[n]
  BY HopsSteps
<1> HIDE DEF n, u
<1>4. PICK g \in [0..Len(u) -> Nat] : Counts(g, a, u) /\ HopsOf(a, u) = g[Len(u)]
  BY <1>1, HopsSteps
<1>5. h[0] = 0 /\ \A i \in 1..n : h[i] = h[i-1] + 1 + ChainBound(a, s[i])
  BY <1>3 DEF Counts, n
<1>6. g[0] = 0 /\ \A i \in 1..n+1 : g[i] = g[i-1] + 1 + ChainBound(a, u[i])
  BY <1>1, <1>4 DEF Counts
<1> DEFINE P == {i \in 0..n : g[i] = h[i]}
<1>7. 0 \in P
  BY <1>1, <1>5, <1>6
<1>8. ASSUME NEW i \in 0..n, i \in P, i < n
      PROVE  i + 1 \in P
  <2>1. i + 1 \in 1..n /\ i + 1 \in 1..n+1 /\ (i + 1) - 1 = i
    BY <1>1, <1>8
  <2>2. g[i+1] = g[i] + 1 + ChainBound(a, u[i+1]) /\ h[i+1] = h[i] + 1 + ChainBound(a, s[i+1])
    BY <1>5, <1>6, <2>1
  <2>3. u[i+1] = s[i+1]
    BY <1>2, <2>1
  <2> QED
    BY <1>8, <2>1, <2>2, <2>3
<1>9. \A i \in 0..n : i \in P
  <2> HIDE DEF P
  <2> QED
    BY <1>1, <1>7, <1>8, Induction
<1>10. g[n] = h[n]
  BY <1>1, <1>9
<1>11. n + 1 \in 1..n+1 /\ (n + 1) - 1 = n
  BY <1>1
<1>12. g[n+1] = g[n] + 1 + ChainBound(a, u[n+1])
  BY <1>6, <1>11
<1> QED
  BY <1>1, <1>3, <1>4, <1>10, <1>12 DEF u

\* Leaving members out does not add hops.
LEMMA HopsWithin ==
    ASSUME NEW a, NEW T, \A g \in T : ChainBound(a, g) \in Nat, NEW s \in Seq(T), NEW X
    PROVE  HopsOf(a, Within(s, X)) <= HopsOf(a, s)
<1> DEFINE n == Len(s)
<1>1. n \in Nat /\ \A i \in 1..n : s[i] \in T
  BY LenProperties, ElementOfSeq
<1>2. PICK h \in [0..n -> Nat] : Counts(h, a, s) /\ HopsOf(a, s) = h[n]
  BY HopsSteps
<1>3. PICK k \in [0..n -> Seq(T \cap X)] : Keeps(k, s, X) /\ Within(s, X) = k[n]
  BY WithinSteps
<1>4. h[0] = 0 /\ \A i \in 1..n : h[i] = h[i-1] + 1 + ChainBound(a, s[i])
  BY <1>2 DEF Counts
<1>5. k[0] = << >> /\ \A i \in 1..n : k[i] = IF s[i] \in X THEN Append(k[i-1], s[i]) ELSE k[i-1]
  BY <1>3 DEF Keeps
<1>6. \A i \in 0..n : k[i] \in Seq(T) /\ HopsOf(a, k[i]) \in Nat
  <2> TAKE i \in 0..n
  <2>1. k[i] \in Seq(T \cap X)
    BY <1>3
  <2>2. k[i] \in Seq(T)
    BY <2>1, SeqMonotonic
  <2> QED
    BY <2>2, HopsNat
<1>7. HopsOf(a, k[0]) = 0
  BY <1>5, HopsEmpty
<1> HIDE DEF n
<1> DEFINE P == {i \in 0..n : HopsOf(a, k[i]) <= h[i]}
<1>8. 0 \in P
  BY <1>1, <1>4, <1>7
<1>9. ASSUME NEW i \in 0..n, i \in P, i < n
      PROVE  i + 1 \in P
  <2>1. i + 1 \in 1..n /\ i + 1 \in 0..n /\ (i + 1) - 1 = i
    BY <1>1, <1>9
  <2>2. k[i+1] = IF s[i+1] \in X THEN Append(k[i], s[i+1]) ELSE k[i]
    BY <1>5, <2>1
  <2>3. HopsOf(a, Append(k[i], s[i+1])) = HopsOf(a, k[i]) + 1 + ChainBound(a, s[i+1])
    BY <1>1, <1>6, <2>1, HopsAppend
  <2>4. h[i+1] = h[i] + 1 + ChainBound(a, s[i+1])
    BY <1>4, <2>1
  <2>5. h[i] \in Nat /\ HopsOf(a, k[i]) \in Nat /\ ChainBound(a, s[i+1]) \in Nat /\ HopsOf(a, k[i]) <= h[i]
    BY <1>1, <1>2, <1>6, <1>9, <2>1
  <2>6. CASE s[i+1] \in X
    <3>1. k[i+1] = Append(k[i], s[i+1])
      BY <2>2, <2>6
    <3>2. HopsOf(a, k[i+1]) = HopsOf(a, k[i]) + 1 + ChainBound(a, s[i+1])
      BY <2>3, <3>1
    <3> QED
      BY <2>1, <2>4, <2>5, <3>2
  <2>7. CASE s[i+1] \notin X
    <3>1. k[i+1] = k[i]
      BY <2>2, <2>7
    <3> QED
      BY <2>1, <2>4, <2>5, <3>1
  <2> QED
    BY <2>6, <2>7
<1>10. \A i \in 0..n : i \in P
  <2> HIDE DEF P
  <2> QED
    BY <1>1, <1>8, <1>9, Induction
<1>11. HopsOf(a, k[n]) <= h[n]
  BY <1>1, <1>10
<1> QED
  BY <1>2, <1>3, <1>11

-----------------------------------------------------------------------------
(* The chains of a route, and what they cost. *)

\* A rendered chain names rendered groups only.
LEMMA ChainType ==
    ASSUME NEW a \in Routes, NEW g \in AllGroups, NEW err
    PROVE  ChainOf(a, g, err) \in Seq(GroupsOf(a))
<1> DEFINE chains == IF err = "window" THEN ContextFallbacks ELSE Fallbacks
           own == PruneChains(chains, GroupsOf(a))
<1>1. ChainOf(a, g, err) = IF g \in DOMAIN own THEN own[g] ELSE DefaultChain(a)
  BY DEF ChainOf, Chains
<1>2. ASSUME NEW s \in Seq(STRING)
      PROVE  Within(s, GroupsOf(a)) \in Seq(GroupsOf(a))
  <2>1. Within(s, GroupsOf(a)) \in Seq(STRING \cap GroupsOf(a))
    BY WithinType
  <2> QED
    BY <2>1, SeqMonotonic
<1>3. DefaultChain(a) \in Seq(GroupsOf(a))
  BY <1>2, RouterAssumption DEF DefaultChain
<1>4. ASSUME g \in DOMAIN own
      PROVE  own[g] \in Seq(GroupsOf(a))
  <2>1. g \in DOMAIN chains /\ own[g] = Within(chains[g], GroupsOf(a))
    BY <1>4 DEF PruneChains
  <2>2. chains[g] \in Seq(STRING)
    BY <2>1, RouterAssumption
  <2> QED
    BY <1>2, <2>1, <2>2
<1> HIDE DEF own
<1> QED
  BY <1>1, <1>3, <1>4

\* A group's bound is the length of a longest chain of it.
LEMMA ChainBoundOf ==
    ASSUME NEW a \in Routes, NEW g \in AllGroups
    PROVE  /\ ChainBound(a, g) \in Nat
           /\ \A err : Len(ChainOf(a, g, err)) <= ChainBound(a, g)
<1> DEFINE m == Len(ChainOf(a, g, "error"))
           n == Len(ChainOf(a, g, "window"))
<1>1. m \in Nat /\ n \in Nat
  BY ChainType, LenProperties
<1>2. ChainBound(a, g) = Max({m, n})
  BY DEF ChainBound
<1>3. \A err : Len(ChainOf(a, g, err)) \in {m, n}
  BY DEF ChainOf
<1> HIDE DEF m, n
<1>4. Max({m, n}) = IF m >= n THEN m ELSE n
  BY <1>1, MaxOfTwo
<1>5. \A l \in {m, n} : l <= Max({m, n})
  BY <1>1, <1>4
<1> QED
  BY <1>1, <1>2, <1>3, <1>4, <1>5

LEMMA RoutedGroups ==
    ASSUME NEW a
    PROVE  GroupsOf(a) \subseteq AllGroups
  BY DEF GroupsOf

\* So is the bound of a walk that begins with it.
LEMMA HopBoundOf ==
    ASSUME NEW a \in Routes, NEW g \in AllGroups
    PROVE  /\ HopBound(a, g) \in Nat /\ HopBound(a, g) >= 1
           /\ \A err : 1 + HopsOf(a, ChainOf(a, g, err)) <= HopBound(a, g)
<1> DEFINE m == HopsOf(a, ChainOf(a, g, "error"))
           n == HopsOf(a, ChainOf(a, g, "window"))
<1>1. \A h \in GroupsOf(a) : ChainBound(a, h) \in Nat
  BY RoutedGroups, ChainBoundOf
<1>2. m \in Nat /\ n \in Nat
  BY <1>1, ChainType, HopsNat
<1>3. HopBound(a, g) = 1 + Max({m, n})
  BY DEF HopBound
<1>4. \A err : HopsOf(a, ChainOf(a, g, err)) \in {m, n}
  BY DEF ChainOf
<1> HIDE DEF m, n
<1>5. Max({m, n}) = IF m >= n THEN m ELSE n
  BY <1>2, MaxOfTwo
<1>6. \A l \in {m, n} : 1 + l <= 1 + Max({m, n})
  BY <1>2, <1>5
<1> QED
  BY <1>2, <1>3, <1>4, <1>5, <1>6

-----------------------------------------------------------------------------
(* The walk. *)

FrameOf(a) == [group : GroupsOf(a), depth : Nat, off : BOOLEAN, rest : Seq(GroupsOf(a)), last : Nat]

\* The most hops that a walk with this stack still has before it.
Ahead(a, stack) ==
    CASE Len(stack) = 1 -> HopBound(a, stack[1].group) - 1
      [] Len(stack) = 2 -> ChainBound(a, stack[2].group) + HopsOf(a, stack[1].rest)
      [] Len(stack) = 3 -> Len(stack[2].rest) + HopsOf(a, stack[1].rest)

\* A group's members have chains of their own, and theirs have none.
StackSound(a, stack) ==
    /\ stack \in Seq(FrameOf(a)) /\ Len(stack) \in 1..3
    /\ stack[1].depth = 0 /\ ~stack[1].off
    /\ Len(stack) >= 2 => stack[2].depth >= 1 /\ ~stack[2].off
    /\ Len(stack) = 3 => stack[3].off

\* The hops that were taken and those ahead keep to the bound of the root.
Walks(a, q) ==
    q.pc # "idle" =>
        /\ StackSound(a, q.stack)
        /\ q.hops \in Nat
        /\ q.hops + Ahead(a, q.stack) <= HopBound(a, q.stack[1].group)

\* The last of at most three.
LEMMA MaxOfThree ==
    ASSUME NEW T, T \subseteq 1..3, T # {}
    PROVE  Max(T) \in T /\ \A i \in T : i <= Max(T)
<1>1. \A y \in T : y = 1 \/ y = 2 \/ y = 3
  OBVIOUS
<1>2. \E x \in T : \A y \in T : x >= y
  <2>1. CASE 3 \in T
    <3>1. \A y \in T : 3 >= y
      BY <1>1
    <3> QED
      BY <2>1, <3>1
  <2>2. CASE 3 \notin T /\ 2 \in T
    <3>1. \A y \in T : 2 >= y
      BY <1>1, <2>2
    <3> QED
      BY <2>2, <3>1
  <2>3. CASE 3 \notin T /\ 2 \notin T
    <3>1. \A y \in T : y = 1
      BY <1>1, <2>3
    <3>2. PICK x \in T : TRUE
      OBVIOUS
    <3>3. x = 1 /\ \A y \in T : x >= y
      BY <3>1, <3>2
    <3> QED
      BY <3>2, <3>3
  <2> QED
    BY <2>1, <2>2, <2>3
<1>3. Max(T) \in T /\ \A y \in T : Max(T) >= y
  BY <1>2 DEF Max
<1> QED
  BY <1>1, <1>3

-----------------------------------------------------------------------------

\* A next member is tried, at the end of a stack that is cut behind the k-th
\* group, whose chain it is from.
Pushed(stack, k) ==
    Append(SubSeq([stack EXCEPT ![k].rest = Tail(@), ![k].last = @ + 1], 1, k),
           Frame(Head(stack[k].rest), stack[k].last + 1, DisableFallbacks(stack[k].depth)))

LEMMA PushedStack ==
    ASSUME NEW a, NEW stack \in Seq(FrameOf(a)), NEW k \in 1..Len(stack), stack[k].rest # << >>
    PROVE  LET w == Pushed(stack, k) IN
           /\ w \in Seq(FrameOf(a)) /\ Len(w) = k + 1
           /\ \A i \in 1..k : /\ w[i].group = stack[i].group
                              /\ w[i].depth = stack[i].depth
                              /\ w[i].off = stack[i].off
                              /\ w[i].rest = IF i = k THEN Tail(stack[i].rest) ELSE stack[i].rest
           /\ w[k+1].group = Head(stack[k].rest)
           /\ w[k+1].depth = stack[k].last + 1
           /\ (w[k+1].off <=> stack[k].depth >= 1)
<1> DEFINE F == FrameOf(a)
           f == stack[k]
           g == [f EXCEPT !.rest = Tail(@), !.last = @ + 1]
           u == [stack EXCEPT ![k] = g]
           v == SubSeq(u, 1, k)
           next == Frame(Head(f.rest), f.last + 1, DisableFallbacks(f.depth))
<1>1. Len(stack) \in Nat /\ k \in Nat /\ k \in Int /\ 1 <= k /\ f \in F
  BY LenProperties, ElementOfSeq
<1>2. f.group \in GroupsOf(a) /\ f.depth \in Nat /\ f.off \in BOOLEAN /\ f.rest \in Seq(GroupsOf(a)) /\ f.last \in Nat
  BY <1>1 DEF FrameOf
<1>3. Head(f.rest) \in GroupsOf(a) /\ Tail(f.rest) \in Seq(GroupsOf(a))
  <2> DEFINE rest == f.rest
  <2>1. rest \in Seq(GroupsOf(a)) /\ rest # << >>
    BY <1>2
  <2> HIDE DEF rest
  <2>2. Head(rest) \in GroupsOf(a) /\ Tail(rest) \in Seq(GroupsOf(a))
    BY <2>1, HeadTailProperties
  <2> QED
    BY <2>2 DEF rest
<1>4. /\ g \in F /\ g.group = f.group /\ g.depth = f.depth /\ g.off = f.off
      /\ g.rest = Tail(f.rest) /\ g.last = f.last + 1
  <2> DEFINE rest == Tail(f.rest)
             last == f.last + 1
  <2>1. rest \in Seq(GroupsOf(a)) /\ last \in Nat
    BY <1>2, <1>3
  <2>2. g = [f EXCEPT !.rest = rest, !.last = last]
    OBVIOUS
  <2> HIDE DEF f, g, rest, last
  <2>3. /\ g \in F /\ g.group = f.group /\ g.depth = f.depth /\ g.off = f.off
        /\ g.rest = rest /\ g.last = last
    BY <1>1, <2>1, <2>2 DEF FrameOf
  <2> QED
    BY <2>3 DEF rest, last
<1>5a. << >> \in Seq(GroupsOf(a))
  BY EmptySeq
<1>5. /\ next \in F /\ next.group = Head(f.rest) /\ next.depth = f.last + 1
      /\ next.off = (f.depth >= 1)
  <2> HIDE DEF f
  <2> QED
    BY <1>2, <1>3, <1>5a DEF FrameOf, Frame, DisableFallbacks
<1>6. u = [stack EXCEPT ![k].rest = Tail(@), ![k].last = @ + 1]
  BY <1>1 DEF FrameOf
<1>5b. next.off <=> f.depth >= 1
  BY <1>5
<1> HIDE DEF g, next
<1>7. /\ u \in Seq(F) /\ Len(u) = Len(stack)
      /\ \A i \in 1..Len(stack) : u[i] = IF i = k THEN g ELSE stack[i]
  BY <1>4, ExceptSeq
<1> HIDE DEF u
<1>8. \A i \in 1..k : i \in 1..Len(stack) /\ u[i] \in F
  BY <1>1, <1>7, ElementOfSeq
<1>9. v \in Seq(F) /\ Len(v) = k /\ \A i \in 1..k : v[i] = u[i]
  BY <1>1, <1>8, SubSeqProperties
<1> HIDE DEF v
<1> DEFINE w == Append(v, next)
<1>10. w \in Seq(F) /\ Len(w) = k + 1 /\ w[k+1] = next /\ \A i \in 1..k : w[i] = v[i]
  BY <1>5, <1>9, AppendProperties
<1> HIDE DEF w
<1>11. Pushed(stack, k) = w
  BY <1>6 DEF Pushed, w, v, next
<1>12. \A i \in 1..k : w[i] = IF i = k THEN g ELSE stack[i]
  BY <1>7, <1>8, <1>9, <1>10
<1> HIDE DEF f, F
<1>13. ASSUME NEW i \in 1..k
       PROVE  /\ w[i].group = stack[i].group
              /\ w[i].depth = stack[i].depth
              /\ w[i].off = stack[i].off
              /\ w[i].rest = IF i = k THEN Tail(stack[i].rest) ELSE stack[i].rest
  BY <1>4, <1>12 DEF f
<1> QED
  BY <1>5, <1>5b, <1>10, <1>11, <1>13 DEF f, F

\* When the group on top has failed for good the walk goes on within its bounds.
LEMMA FailWalks ==
    ASSUME available \in Routes, NEW q, Shaped(q), q.pc # "idle", Walks(available, q), NEW err
    PROVE  Walks(available, Fail(q, err))
<1> DEFINE a == available
           F == FrameOf(a)
           s == q.stack
           n == Len(s)
           top == s[n]
           chain == IF top.off \/ top.depth >= MaxFallbacks THEN << >>
                    ELSE Within(ChainOf(a, top.group, err), AllGroups \ {top.group})
           stack == [s EXCEPT ![n].rest = chain]
           open == {i \in DOMAIN stack : stack[i].rest # << >>}
           k == Max(open)
           w == Pushed(stack, k)
           bound == HopBound(a, s[1].group)
<1>1. /\ s \in Seq(F) /\ n \in 1..3
      /\ s[1].depth = 0 /\ ~s[1].off
      /\ n >= 2 => s[2].depth >= 1 /\ ~s[2].off
      /\ n = 3 => s[3].off
      /\ q.hops \in Nat /\ q.hops + Ahead(a, s) <= bound
  BY DEF Walks, StackSound
<1>2. \A i \in 1..n :
         /\ s[i] \in F /\ s[i].group \in GroupsOf(a) /\ s[i].group \in AllGroups
         /\ s[i].depth \in Nat /\ s[i].off \in BOOLEAN /\ s[i].last \in Nat
         /\ s[i].rest \in Seq(GroupsOf(a)) /\ Len(s[i].rest) \in Nat
  <2> TAKE i \in 1..n
  <2>1. s[i] \in F
    BY <1>1, ElementOfSeq
  <2>2. /\ s[i].group \in GroupsOf(a) /\ s[i].depth \in Nat /\ s[i].off \in BOOLEAN
        /\ s[i].last \in Nat /\ s[i].rest \in Seq(GroupsOf(a))
    BY <2>1 DEF FrameOf
  <2> QED
    BY <2>1, <2>2, RoutedGroups, LenProperties
<1>3. \A g \in GroupsOf(a) : ChainBound(a, g) \in Nat
  BY RoutedGroups, ChainBoundOf
<1>4. top = s[n] /\ n \in 1..n /\ 1 \in 1..n /\ (n = 1 \/ n = 2 \/ n = 3)
  BY <1>1
<1> HIDE DEF n, top, bound
<1>4a. bound \in Nat
  BY <1>2, <1>4, HopBoundOf DEF bound
<1>5. /\ chain \in Seq(GroupsOf(a))
      /\ top.off => chain = << >>
      /\ Len(chain) \in Nat /\ Len(chain) <= ChainBound(a, top.group)
      /\ HopsOf(a, chain) \in Nat /\ 1 + HopsOf(a, chain) <= HopBound(a, top.group)
  <2> DEFINE full == ChainOf(a, top.group, err)
             g == top.group
  <2>1. g \in AllGroups /\ full \in Seq(GroupsOf(a)) /\ Len(full) <= ChainBound(a, g) /\ Len(full) \in Nat
    BY <1>2, <1>4, ChainType, ChainBoundOf, LenProperties
  <2>2. /\ ChainBound(a, g) \in Nat /\ HopBound(a, g) \in Nat /\ HopBound(a, g) >= 1
        /\ 1 + HopsOf(a, full) <= HopBound(a, g) /\ HopsOf(a, full) \in Nat
    BY <1>3, <2>1, ChainBoundOf, HopBoundOf, HopsNat
  <2>3. CASE chain = << >>
    <3>1. HopsOf(a, << >>) = 0
      BY <1>3, HopsEmpty
    <3>2. << >> \in Seq(GroupsOf(a)) /\ Len(<< >>) = 0
      BY EmptySeq
    <3> HIDE DEF chain
    <3> QED
      BY <2>2, <2>3, <3>1, <3>2
  <2>4. CASE ~top.off /\ chain = Within(full, AllGroups \ {g})
    <3>1. /\ Within(full, AllGroups \ {g}) \in Seq(GroupsOf(a))
          /\ Len(Within(full, AllGroups \ {g})) <= Len(full)
      BY <2>1, WithinType
    <3>2. HopsOf(a, Within(full, AllGroups \ {g})) <= HopsOf(a, full)
      BY <1>3, <2>1, HopsWithin
    <3> HIDE DEF chain, full, g
    <3>3. Len(chain) \in Nat /\ HopsOf(a, chain) \in Nat
      BY <1>3, <2>4, <3>1, LenProperties, HopsNat
    <3>4. Len(chain) <= Len(full) /\ HopsOf(a, chain) <= HopsOf(a, full)
      BY <2>4, <3>1, <3>2
    <3> QED
      BY <2>1, <2>2, <2>4, <3>1, <3>3, <3>4 DEF g
  <2> QED
    BY <2>3, <2>4
<1>5a. chain \in Seq(GroupsOf(a)) /\ (n = 3 => chain = << >>)
  <2> HIDE DEF chain
  <2>1. n = 3 => top.off
    BY <1>1, <1>4
  <2> QED
    BY <1>5, <2>1, Zenon
<1> HIDE DEF chain
<1>6. /\ stack \in Seq(F) /\ Len(stack) = n
      /\ \A i \in 1..n : /\ stack[i].group = s[i].group /\ stack[i].depth = s[i].depth
                         /\ stack[i].off = s[i].off /\ stack[i].last = s[i].last
                         /\ stack[i].rest = IF i = n THEN chain ELSE s[i].rest
  <2> DEFINE f == [top EXCEPT !.rest = chain]
  <2>1. top \in F
    BY <1>2, <1>4
  <2>2. /\ f \in F /\ f.group = top.group /\ f.depth = top.depth /\ f.off = top.off
        /\ f.last = top.last /\ f.rest = chain
    <3>1. chain \in Seq(GroupsOf(a))
      BY <1>5a
    <3> QED
      BY <2>1, <3>1 DEF FrameOf
  <2>3. stack = [s EXCEPT ![n] = f]
    BY DEF top
  <2> HIDE DEF f, F, stack
  <2>4. /\ stack \in Seq(F) /\ Len(stack) = n
        /\ \A i \in 1..n : stack[i] = IF i = n THEN f ELSE s[i]
    BY <1>1, <1>4, <2>2, <2>3, ExceptSeq DEF n
  <2> QED
    BY <1>4, <2>2, <2>4
<1>7. \A i \in 1..n : stack[i].rest \in Seq(GroupsOf(a))
  <2> HIDE DEF stack
  <2> TAKE i \in 1..n
  <2>1. s[i].rest \in Seq(GroupsOf(a)) /\ chain \in Seq(GroupsOf(a))
    BY <1>2, <1>5a
  <2>2. stack[i].rest = chain \/ stack[i].rest = s[i].rest
    BY <1>6
  <2> QED
    BY <2>1, <2>2
<1>8. DOMAIN stack = 1..n
  BY <1>6, LenProperties
<1> HIDE DEF stack
<1>9. CASE open = {}
  <2>1. Fail(q, err) = Idle
    BY <1>9 DEF Fail, Last, open, stack, chain, top, n
  <2> QED
    BY <2>1 DEF Walks, Idle
<1>10. CASE open # {}
  <2>1. open \subseteq 1..3
    BY <1>4, <1>8
  <2>2. k \in open /\ \A i \in open : i <= k
    <3> HIDE DEF open
    <3> QED
      BY <1>10, <2>1, MaxOfThree
  <2>3. /\ Fail(q, err).stack = w /\ Fail(q, err).hops = q.hops + 1
    <3>1. Fail(q, err) = [q EXCEPT !.pc = "pick", !.tries = 0, !.first = TRUE, !.hops = q.hops + 1,
                                   !.call = NoCall, !.stack = w]
      BY <1>10 DEF Fail, Last, open, stack, chain, top, n, Pushed
    <3> HIDE DEF w
    <3> QED
      BY <3>1 DEF Shaped
  <2>4. k \in 1..n /\ stack[k].rest # << >>
    BY <1>8, <2>2
  <2> HIDE DEF k, open
  <2>5. /\ w \in Seq(F) /\ Len(w) = k + 1
        /\ \A i \in 1..k : /\ w[i].group = stack[i].group
                           /\ w[i].depth = stack[i].depth
                           /\ w[i].off = stack[i].off
                           /\ w[i].rest = IF i = k THEN Tail(stack[i].rest) ELSE stack[i].rest
        /\ w[k+1].group = Head(stack[k].rest)
        /\ w[k+1].depth = stack[k].last + 1
        /\ (w[k+1].off <=> stack[k].depth >= 1)
    BY <1>6, <2>4, PushedStack
  <2>6. k = 1 \/ k = 2
    <3>1. ASSUME k = 3
          PROVE  FALSE
      <4>1. n = 3
        BY <1>4, <2>4, <3>1
      <4>2. chain = << >>
        BY <1>5a, <4>1
      <4>3. stack[3].rest = chain
        BY <1>4, <1>6, <4>1
      <4> QED
        BY <2>4, <3>1, <4>2, <4>3
    <3> QED
      BY <1>4, <2>4, <3>1
  <2> HIDE DEF w, F
  <2>7. CASE k = 1
    <3> DEFINE r == stack[1].rest
    <3>1. r \in Seq(GroupsOf(a)) /\ r # << >>
      BY <1>4, <1>7, <2>4, <2>7
    <3>2. /\ HopsOf(a, r) = 1 + ChainBound(a, Head(r)) + HopsOf(a, Tail(r))
          /\ Head(r) \in GroupsOf(a) /\ Tail(r) \in Seq(GroupsOf(a))
      <4> HIDE DEF r
      <4> QED
        BY <1>3, <3>1, HopsHead, HeadTailProperties
    <3>3. HopsOf(a, r) \in Nat /\ HopsOf(a, Tail(r)) \in Nat /\ ChainBound(a, Head(r)) \in Nat
      BY <1>3, <3>1, <3>2, HopsNat
    <3>4. /\ w[1].group = s[1].group /\ w[1].depth = 0 /\ ~w[1].off
          /\ w[1].rest = Tail(r) /\ w[2].group = Head(r)
          /\ w[2].depth = s[1].last + 1 /\ (w[2].off <=> 0 >= 1)
      BY <1>1, <1>4, <1>6, <2>5, <2>7
    <3>5. StackSound(a, w)
      <4>1. w \in Seq(FrameOf(a)) /\ Len(w) = 2
        BY <2>5, <2>7 DEF F
      <4>2. s[1].last \in Nat
        BY <1>2, <1>4
      <4>3. w[2].depth >= 1 /\ ~w[2].off
        BY <3>4, <4>2
      <4> QED
        BY <3>4, <4>1, <4>3 DEF StackSound
    <3>6. Ahead(a, w) = ChainBound(a, Head(r)) + HopsOf(a, Tail(r))
      BY <2>5, <2>7, <3>4 DEF Ahead
    <3> HIDE DEF r
    <3>7. q.hops + HopsOf(a, r) <= bound
      <4>2. CASE n = 1
        <5>1. r = chain /\ top = s[1]
          BY <1>4, <1>6, <4>2 DEF r, top
        <5>2. Ahead(a, s) = bound - 1
          BY <4>2 DEF Ahead, n, bound
        <5>3. 1 + HopsOf(a, r) <= bound
          BY <1>5, <5>1 DEF bound
        <5> QED
          BY <1>1, <3>3, <1>4a, <5>2, <5>3
      <4>3. CASE n = 2
        <5>1. r = s[1].rest
          BY <1>4, <1>6, <4>3 DEF r
        <5>2. Ahead(a, s) = ChainBound(a, s[2].group) + HopsOf(a, r)
          BY <4>3, <5>1 DEF Ahead, n
        <5>3. ChainBound(a, s[2].group) \in Nat
          BY <1>2, <1>3, <4>3
        <5> QED
          BY <1>1, <3>3, <1>4a, <5>2, <5>3
      <4>4. CASE n = 3
        <5>1. r = s[1].rest
          BY <1>4, <1>6, <4>4 DEF r
        <5> DEFINE l == Len(s[2].rest)
        <5>2. Ahead(a, s) = l + HopsOf(a, r)
          BY <4>4, <5>1 DEF Ahead, n
        <5>3. l \in Nat
          BY <1>2, <4>4
        <5> HIDE DEF l
        <5> QED
          BY <1>1, <3>3, <1>4a, <5>2, <5>3
      <4> QED
        BY <1>4, <4>2, <4>3, <4>4
    <3>8. q.hops + 1 \in Nat /\ q.hops + 1 + Ahead(a, w) <= bound
      <4> DEFINE c == ChainBound(a, Head(r))
                 t == HopsOf(a, Tail(r))
                 h == HopsOf(a, r)
                 m == q.hops
      <4>1. h = 1 + c + t /\ Ahead(a, w) = c + t /\ m + h <= bound /\ m \in Nat /\ bound \in Nat
        BY <1>1, <3>2, <3>6, <3>7, <1>4a
      <4>2. c \in Nat /\ t \in Nat
        BY <3>2, <3>3
      <4> HIDE DEF c, t, h, m, bound
      <4>3. m + 1 \in Nat /\ m + 1 + Ahead(a, w) <= bound
        BY <4>1, <4>2
      <4> QED
        BY <4>3 DEF m
    <3> QED
      BY <2>3, <3>4, <3>5, <3>8 DEF Walks, bound
  <2>8. CASE k = 2
    <3> DEFINE r == stack[2].rest
               r1 == s[1].rest
    <3>1. r \in Seq(GroupsOf(a)) /\ r # << >> /\ n >= 2
      BY <1>1, <1>7, <2>4, <2>8
    <3>2. Len(r) \in Nat /\ Len(Tail(r)) = Len(r) - 1 /\ Head(r) \in GroupsOf(a)
      <4> HIDE DEF r
      <4> QED
        BY <3>1, HeadTailProperties, LenProperties
    <3>3. HopsOf(a, r1) \in Nat
      BY <1>2, <1>3, <1>4, HopsNat
    <3>4. /\ w[1].group = s[1].group /\ w[1].depth = 0 /\ ~w[1].off /\ w[1].rest = r1
          /\ w[2].depth >= 1 /\ ~w[2].off /\ w[2].rest = Tail(r)
          /\ w[3].off
      <4>1. 1 \in 1..k /\ 2 \in 1..k /\ 1 \in 1..n /\ 2 \in 1..n /\ 1 # n /\ 1 # k /\ k + 1 = 3
        BY <1>4, <2>8, <3>1
      <4>2. /\ stack[1].group = s[1].group /\ stack[1].depth = 0 /\ ~stack[1].off /\ stack[1].rest = r1
            /\ stack[2].depth >= 1 /\ ~stack[2].off
        BY <1>1, <1>6, <3>1, <4>1
      <4>3. /\ w[1].group = stack[1].group /\ w[1].depth = stack[1].depth /\ w[1].off = stack[1].off
            /\ w[1].rest = stack[1].rest
        BY <2>5, <4>1
      <4>4. /\ w[2].depth = stack[2].depth /\ w[2].off = stack[2].off /\ w[2].rest = Tail(r)
            /\ (w[3].off <=> stack[2].depth >= 1)
        BY <2>5, <2>8, <4>1
      <4> QED
        BY <4>2, <4>3, <4>4
    <3>5. StackSound(a, w)
      <4>1. w \in Seq(FrameOf(a)) /\ Len(w) = 3
        BY <2>5, <2>8 DEF F
      <4> QED
        BY <3>4, <4>1 DEF StackSound
    <3>6. Ahead(a, w) = Len(Tail(r)) + HopsOf(a, r1)
      BY <2>5, <2>8, <3>4 DEF Ahead
    <3> HIDE DEF r, r1
    <3>7. q.hops + Len(r) + HopsOf(a, r1) <= bound
      <4>2. CASE n = 2
        <5>1. r = chain /\ top = s[2]
          BY <1>4, <1>6, <4>2 DEF r, top
        <5>2. Ahead(a, s) = ChainBound(a, s[2].group) + HopsOf(a, r1)
          BY <4>2 DEF Ahead, r1, n
        <5>3. ChainBound(a, s[2].group) \in Nat /\ Len(r) <= ChainBound(a, s[2].group)
          BY <1>2, <1>3, <1>5, <4>2, <5>1
        <5> QED
          BY <1>1, <3>2, <3>3, <1>4a, <5>2, <5>3
      <4>3. CASE n = 3
        <5>1. r = s[2].rest
          BY <1>1, <1>6, <4>3 DEF r
        <5>2. Ahead(a, s) = Len(r) + HopsOf(a, r1)
          BY <4>3, <5>1 DEF Ahead, n, r1
        <5> QED
          BY <1>1, <3>2, <3>3, <1>4a, <5>2
      <4> QED
        BY <1>4, <3>1, <4>2, <4>3
    <3>8. q.hops + 1 \in Nat /\ q.hops + 1 + Ahead(a, w) <= bound
      <4> QED
        BY <1>1, <3>2, <3>3, <3>6, <3>7, <1>4a
    <3> QED
      BY <2>3, <3>4, <3>5, <3>8 DEF Walks, bound
  <2> QED
    BY <2>6, <2>7, <2>8
<1> QED
  BY <1>9, <1>10

\* Another attempt goes on from where the walk is.
LEMMA RetryWalks ==
    ASSUME NEW q, Shaped(q), q.pc # "idle", Walks(available, q), NEW n
    PROVE  Walks(available, Retry(q, n))
<1>1. Retry(q, n).stack = q.stack /\ Retry(q, n).hops = q.hops
  BY DEF Shaped, Retry
<1> QED
  BY <1>1 DEF Walks

LEMMA AfterErrorWalks ==
    ASSUME available \in Routes, NEW q, Shaped(q), q.pc # "idle", Walks(available, q),
           NEW d, NEW err, NEW p \in AfterError(q, d, err)
    PROVE  Walks(available, p)
<1>1. (\E n : p = Retry(q, n)) \/ p = Fail(q, err)
  BY DEF AfterError
<1> QED
  BY <1>1, RetryWalks, FailWalks

\* So does a call.
LEMMA CallWalks ==
    ASSUME NEW q, Shaped(q), q.pc # "idle", Walks(available, q), NEW d
    PROVE  Walks(available, Called(q, d))
<1>1. \E inPlace, popped, call :
         Called(q, d) = [q EXCEPT !.pc = "calling", !.inPlace = inPlace, !.popped = popped, !.call = call]
  BY Zenon DEF Called
<1>2. Called(q, d).stack = q.stack /\ Called(q, d).hops = q.hops
  BY <1>1 DEF Shaped
<1> QED
  BY <1>2 DEF Walks

\* A walk begins with one hop, to the root.
LEMMA ArriveWalks ==
    ASSUME available \in Routes, NEW g \in Groups, NEW q,
           q.stack = <<Frame(g, 0, FALSE)>>, q.hops = 1
    PROVE  Walks(available, q)
<1> DEFINE f == Frame(g, 0, FALSE)
           w == q.stack
<1>1. << >> \in Seq(GroupsOf(available))
  BY EmptySeq
<1>2. f \in FrameOf(available) /\ f.depth = 0 /\ ~f.off /\ f.group = g
  BY <1>1 DEF Frame, FrameOf, Groups
<1>3. w = <<f>>
  OBVIOUS
<1> HIDE DEF f, w
<1>4. w \in Seq(FrameOf(available)) /\ Len(w) = 1 /\ w[1] = f
  BY <1>2, <1>3
<1>5. HopBound(available, g) \in Nat
  BY RoutedGroups, HopBoundOf DEF Groups
<1>6. Ahead(available, w) = HopBound(available, g) - 1
  BY <1>2, <1>4 DEF Ahead
<1>7. StackSound(available, w)
  BY <1>2, <1>4 DEF StackSound
<1>8. 1 + Ahead(available, w) <= HopBound(available, w[1].group)
  BY <1>2, <1>4, <1>5, <1>6
<1>9. q.hops \in Nat /\ q.hops + Ahead(available, w) <= HopBound(available, w[1].group)
  BY <1>8
<1> QED
  BY <1>7, <1>9, Zenon DEF Walks, w

-----------------------------------------------------------------------------
(* The invariant of the walks. *)

WalkSound == available \in Routes /\ \A r \in Requests : Walks(available, req[r])

LEMMA IdleWalks == Walks(available, Idle)
  BY DEF Walks, Idle

LEMMA NextWalks ==
    ASSUME Sound, WalkSound, [Next]_vars
    PROVE  WalkSound'
<1>1. available' = available
  BY DEF Next, vars, Tick, Step, Answer, Arrive, Skip, Call, Succeed, QuotaError, OtherError
<1>2. /\ DOMAIN req = Requests
      /\ \A r \in Requests : Shaped(req[r]) /\ Walks(available, req[r])
  BY DEF Sound, TasksSound, TaskSound, WalkSound
<1>3. available \in Routes
  BY DEF WalkSound
<1>4. ASSUME NEW r \in Requests, NEW p, Walks(available, p), req' = [req EXCEPT ![r] = p]
      PROVE  WalkSound'
  <2>1. \A t \in Requests : req'[t] = IF t = r THEN p ELSE req[t]
    BY <1>2, <1>4
  <2>2. \A t \in Requests : Walks(available', req'[t])
    BY <1>1, <1>2, <1>4, <2>1
  <2> QED
    BY <1>1, <1>3, <2>2 DEF WalkSound
<1>5. ASSUME UNCHANGED req
      PROVE  WalkSound'
  <2>1. \A t \in Requests : Walks(available', req'[t])
    BY <1>1, <1>2, <1>5
  <2> QED
    BY <1>1, <1>3, <2>1 DEF WalkSound
<1>6. ASSUME NEW r \in Requests, Arrive(r)
      PROVE  WalkSound'
  <2>1. PICK c \in Clients :
           /\ RootOf(c) \in Groups
           /\ req' = [req EXCEPT ![r] = [Idle EXCEPT !.pc = "pick", !.client = c, !.hops = 1,
                                            !.inPlace = c.system, !.stack = <<Frame(RootOf(c), 0, FALSE)>>]]
    BY <1>6 DEF Arrive
  <2> DEFINE stack == <<Frame(RootOf(c), 0, FALSE)>>
             p == [Idle EXCEPT !.pc = "pick", !.client = c, !.hops = 1, !.inPlace = c.system, !.stack = stack]
  <2>2. p.stack = stack /\ p.hops = 1
    <3> HIDE DEF stack
    <3> QED
      BY DEF Idle
  <2>3. req' = [req EXCEPT ![r] = p]
    BY <2>1
  <2> HIDE DEF p
  <2>4. Walks(available, p)
    BY <1>3, <2>1, <2>2, ArriveWalks
  <2> QED
    BY <1>4, <2>3, <2>4
<1>7. ASSUME NEW r \in Requests, Skip(r) \/ QuotaError(r) \/ OtherError(r)
      PROVE  WalkSound'
  <2>1. PICK d, err : \E q \in AfterError(req[r], d, err) : req' = [req EXCEPT ![r] = q]
    <3>1. CASE Skip(r)
      BY <3>1 DEF Skip
    <3>2. CASE QuotaError(r)
      BY <3>2 DEF QuotaError
    <3>3. CASE OtherError(r)
      BY <3>3 DEF OtherError
    <3> QED
      BY <1>7, <3>1, <3>2, <3>3
  <2>2. PICK p \in AfterError(req[r], d, err) : req' = [req EXCEPT ![r] = p]
    BY <2>1
  <2>3. req[r].pc # "idle"
    BY <1>7 DEF Skip, QuotaError, OtherError
  <2>4. Walks(available, p)
    BY <1>2, <1>3, <2>2, <2>3, AfterErrorWalks
  <2> QED
    BY <1>4, <2>2, <2>4
<1>8. ASSUME NEW r \in Requests, Call(r)
      PROVE  WalkSound'
  <2>1. PICK d : req' = [req EXCEPT ![r] = Called(req[r], d)]
    BY <1>8 DEF Call
  <2>2. Walks(available, Called(req[r], d))
    BY <1>2, <1>8, CallWalks DEF Call
  <2> QED
    BY <1>4, <2>1, <2>2
<1>9. ASSUME NEW r \in Requests, Succeed(r)
      PROVE  WalkSound'
  BY <1>4, <1>9, IdleWalks DEF Succeed
<1> QED
  BY <1>5, <1>6, <1>7, <1>8, <1>9 DEF Next, vars, Tick, Step, Answer

\* What lies ahead of a walk is not less than nothing.
LEMMA AheadNat ==
    ASSUME NEW a \in Routes, NEW stack, StackSound(a, stack)
    PROVE  Ahead(a, stack) \in Nat /\ Last(stack).group \in GroupsOf(a)
<1>1. /\ stack \in Seq(FrameOf(a)) /\ Len(stack) \in 1..3
      /\ Len(stack) = 1 \/ Len(stack) = 2 \/ Len(stack) = 3
  BY DEF StackSound
<1>2. \A i \in 1..Len(stack) :
         stack[i].group \in GroupsOf(a) /\ stack[i].group \in AllGroups /\ stack[i].rest \in Seq(GroupsOf(a))
  <2> TAKE i \in 1..Len(stack)
  <2>1. stack[i] \in FrameOf(a)
    BY <1>1, ElementOfSeq
  <2> QED
    BY <2>1, RoutedGroups DEF FrameOf
<1>3. \A g \in GroupsOf(a) : ChainBound(a, g) \in Nat
  BY RoutedGroups, ChainBoundOf
<1>4. \A i \in 1..Len(stack) : HopsOf(a, stack[i].rest) \in Nat /\ Len(stack[i].rest) \in Nat
  BY <1>2, <1>3, HopsNat, LenProperties
<1>5. 1 \in 1..Len(stack) /\ Len(stack) \in 1..Len(stack)
  BY <1>1
<1>6. Last(stack).group \in GroupsOf(a)
  BY <1>2, <1>5 DEF Last
<1>7. CASE Len(stack) = 1
  <2>1. HopBound(a, stack[1].group) \in Nat /\ HopBound(a, stack[1].group) >= 1
    BY <1>2, <1>5, HopBoundOf
  <2>2. Ahead(a, stack) = HopBound(a, stack[1].group) - 1
    BY <1>7 DEF Ahead
  <2> QED
    BY <1>6, <2>1, <2>2
<1>8. CASE Len(stack) = 2
  <2>1. ChainBound(a, stack[2].group) \in Nat /\ HopsOf(a, stack[1].rest) \in Nat
    BY <1>2, <1>3, <1>4, <1>5, <1>8
  <2>2. Ahead(a, stack) = ChainBound(a, stack[2].group) + HopsOf(a, stack[1].rest)
    BY <1>8 DEF Ahead
  <2> QED
    BY <1>6, <2>1, <2>2
<1>9. CASE Len(stack) = 3
  <2>1. Len(stack[2].rest) \in Nat /\ HopsOf(a, stack[1].rest) \in Nat
    BY <1>4, <1>5, <1>9
  <2>2. Ahead(a, stack) = Len(stack[2].rest) + HopsOf(a, stack[1].rest)
    BY <1>9 DEF Ahead
  <2> QED
    BY <1>6, <2>1, <2>2
<1> QED
  BY <1>1, <1>7, <1>8, <1>9

-----------------------------------------------------------------------------
(* The theorems. *)

\* The tasks and the breaker stay sound, over any number of requests.
THEOREM SoundCorrect == Spec => []Sound
<1>1. Init => Sound
  BY InitSound
<1>2. Sound /\ [Next]_vars => Sound'
  BY NextSound
<1> QED
  BY <1>1, <1>2, PTL DEF Spec

\* Whatever the catalog and the walk, a call asks for a number of tokens its
\* deployment can give, and the system prompt goes where the provider takes it.
THEOREM CallIntactCorrect == Spec => []CallIntact
<1>1. Sound => CallIntact
  BY DEF Sound, TasksSound, TaskSound, Intact, CallIntact
<1> QED
  BY <1>1, SoundCorrect, PTL

\* No task calls a deployment before the time of its latest quota error is over.
THEOREM QuotaCorrect == Spec => QuotaRespected
<1> DEFINE Waits == \A r \in Requests :
               req'[r].pc = "calling" /\ req[r].pc # "calling" => due[req'[r].call.d] = 0
<1>1. ASSUME Sound, [Next]_vars
      PROVE  [Waits]_vars
  <2>1. CASE UNCHANGED vars
    BY <2>1
  <2>2. CASE Tick
    BY <2>2 DEF Tick
  <2>3. ASSUME NEW r \in Requests, Arrive(r)
        PROVE  Waits
    <3>1. req'[r].pc = "pick" /\ \A t \in Requests : t # r => req'[t] = req[t]
      BY <2>3, <1>1 DEF Arrive, Sound, TasksSound, Idle
    <3> QED
      BY <3>1
  <2>4. ASSUME NEW r \in Requests, Step(r)
        PROVE  Waits
    BY <1>1, <2>4, ErrorSound, CallStepSound, SucceedSound DEF Step, Answer
  <2> QED
    BY <1>1, <2>1, <2>2, <2>3, <2>4 DEF Next
<1> QED
  BY <1>1, SoundCorrect, PTL DEF Spec, QuotaRespected

\* Whatever the chains, the walks of all requests keep to their bounds.
THEOREM WalkCorrect == Spec => []WalkSound
<1>1. Init => WalkSound
  BY IdleWalks DEF Init, WalkSound
<1>2. Sound /\ WalkSound /\ [Next]_vars => WalkSound'
  BY NextWalks
<1> QED
  BY <1>1, <1>2, SoundCorrect, PTL DEF Spec

\* A request tries no more groups than its own, that group's chain and those of
\* the members of it, and none that was not rendered.
THEOREM HopsCorrect == Spec => []HopsLimited
<1>1. ASSUME WalkSound
      PROVE  HopsLimited
  <2> SUFFICES ASSUME NEW r \in Requests, req[r].pc # "idle"
               PROVE  /\ req[r].hops <= HopBound(available, req[r].stack[1].group)
                      /\ Len(req[r].stack) <= 3
                      /\ Last(req[r].stack).group \in Groups
    BY DEF HopsLimited
  <2> DEFINE stack == req[r].stack
             bound == HopBound(available, stack[1].group)
             ahead == Ahead(available, stack)
  <2>1. /\ StackSound(available, stack) /\ req[r].hops \in Nat
        /\ req[r].hops + ahead <= bound /\ available \in Routes
    BY <1>1 DEF WalkSound, Walks
  <2>2. Len(stack) \in 1..3 /\ stack \in Seq(FrameOf(available))
    BY <2>1 DEF StackSound
  <2>3. ahead \in Nat /\ Last(stack).group \in GroupsOf(available)
    BY <2>1, AheadNat
  <2>4. stack[1].group \in AllGroups
    <3>1. stack[1] \in FrameOf(available)
      BY <2>2, ElementOfSeq
    <3> QED
      BY <3>1, RoutedGroups DEF FrameOf
  <2>5. bound \in Nat
    BY <2>1, <2>4, HopBoundOf
  <2> DEFINE l == Len(stack)
  <2>2a. l \in 1..3
    BY <2>2
  <2> HIDE DEF ahead, bound, stack, l
  <2>6. req[r].hops <= bound
    BY <2>1, <2>3, <2>5
  <2>7. l <= 3
    BY <2>2a
  <2> QED
    BY <2>3, <2>6, <2>7, Zenon DEF bound, stack, l, Groups
<1> QED
  BY <1>1, WalkCorrect, PTL

-----------------------------------------------------------------------------
(* The archiver: SpendArchive. *)

Old(d) == d < today - KeepDays

Handling(p) == stage[p] \in {"export", "upload", "index", "delete", "deleting"}

HolderRuns == \A p \in Runner : stage[p] # "idle" => flock = p

DaysAreOld ==
  \A p \in Runner :
    /\ \A d \in todo[p] : Old(d)
    /\ Handling(p) => Old(day[p])

\* A day that was counted has rows, unless the DELETE of a dead run came
\* between.  What was exported is what the day holds, or that DELETE has come
\* since, and it lacks no row of an earlier object.
BlobExact ==
  \A p \in Runner :
    /\ stage[p] = "export" => RowsOf(day[p]) # {} \/ day[p] \in raced
    /\ stage[p] = "upload" =>
         /\ RowsOf(day[p]) \in {{}, blob[p]}
         /\ object[day[p]] \subseteq blob[p] \/ day[p] \in raced

ObjectExact ==
  \A d \in Day : object[d] = {} \/ (Old(d) /\ RowsOf(d) \in {{}, object[d]})

Deletable ==
  /\ \A d \in pending : Old(d) /\ RowsOf(d) \subseteq object[d]
  /\ \A p \in Runner :
       stage[p] \in {"index", "delete", "deleting"} => RowsOf(day[p]) \subseteq object[day[p]]

ArchiveIInv ==
  /\ TypeOK
  /\ HolderRuns
  /\ DaysAreOld
  /\ BlobExact
  /\ ObjectExact
  /\ Deletable
  /\ NoRowLost

---------------------------------------------------------------------------
(* Types                                                                   *)

LEMMA TypeInit == ArchiveInit => TypeOK
BY ArchiveAssumption DEF ArchiveInit, TypeOK, Stage, Day

LEMMA ArchiveTypeStep == TypeOK /\ [ArchiveNext]_archiveVars => TypeOK'
<1> USE ArchiveAssumption DEF TypeOK, Stage
<1> SUFFICES ASSUME TypeOK, [ArchiveNext]_archiveVars PROVE TypeOK'
  OBVIOUS
<1>1. CASE NextDayDawns
  BY <1>1 DEF NextDayDawns, stores, locals, Day
<1>2. ASSUME NEW r \in Request, Insert(r) PROVE TypeOK'
  BY <1>2 DEF Insert, stores, locals
<1>3. ASSUME NEW d \in Day, ExecuteDelete(d) PROVE TypeOK'
  BY <1>3 DEF ExecuteDelete, stores, locals, RowsOf
<1>4. ASSUME NEW p \in Runner, Launch(p) PROVE TypeOK'
  BY <1>4 DEF Launch, Proceed, stores, locals
<1>5. ASSUME NEW p \in Runner, NEW limit \in Limit, CandidateDays(p, limit) PROVE TypeOK'
  <2>1. Earliest(Eligible, limit) \subseteq Day
    BY DEF Earliest, Eligible
  <2> QED
    BY <1>5, <2>1 DEF CandidateDays, Proceed, stores
<1>6. ASSUME NEW p \in Runner, NEW d \in Day, CountDay(p, d) PROVE TypeOK'
  BY <1>6 DEF CountDay, Proceed, stores
<1>7. ASSUME NEW p \in Runner, Finish(p) PROVE TypeOK'
  BY <1>7 DEF Finish, Exit, Proceed, stores, Day
<1>8. ASSUME NEW p \in Runner, ExportDay(p) PROVE TypeOK'
  BY <1>8 DEF ExportDay, Proceed, stores, RowsOf
<1>9. ASSUME NEW p \in Runner, UploadSucceeds(p) PROVE TypeOK'
  BY <1>9 DEF UploadSucceeds, Proceed, locals
<1>10. ASSUME NEW p \in Runner, UploadFails(p) PROVE TypeOK'
  <2>1. object' \in [Day -> SUBSET Request] /\ faults' \in 0..MaxFaults
    BY <1>10 DEF UploadFails
  <2>2. CASE attempt[p] < 3 /\ UNCHANGED <<stage, flock, todo, day, blob, worked>>
    BY <1>10, <2>1, <2>2 DEF UploadFails
  <2>3. CASE Exit(p)
    BY <1>10, <2>1, <2>3 DEF UploadFails, Exit, Proceed, Day
  <2> QED
    BY <1>10, <2>2, <2>3 DEF UploadFails
<1>11. ASSUME NEW p \in Runner, CleanIndex(p) PROVE TypeOK'
  BY <1>11 DEF CleanIndex, Proceed, locals
<1>12. ASSUME NEW p \in Runner, SkipIndex(p) PROVE TypeOK'
  BY <1>12 DEF SkipIndex, Proceed, stores, locals
<1>13. ASSUME NEW p \in Runner, SendDelete(p) PROVE TypeOK'
  BY <1>13 DEF SendDelete, Proceed, locals
<1>14. ASSUME NEW p \in Runner, DeleteReturns(p) PROVE TypeOK'
  BY <1>14 DEF DeleteReturns, Proceed, stores, locals
<1>15. ASSUME NEW p \in Runner, Abort(p) PROVE TypeOK'
  BY <1>15 DEF Abort, Exit, Proceed, Day
<1>16. CASE UNCHANGED archiveVars
  BY <1>16 DEF archiveVars, stores, locals
<1> QED
  BY <1>1, <1>2, <1>3, <1>4, <1>5, <1>6, <1>7, <1>8, <1>9, <1>10, <1>11,
     <1>12, <1>13, <1>14, <1>15, <1>16 DEF ArchiveNext, RunnerStep, Fault

\* What the job keeps has its type: an upload is tried at most three times and
\* every day it handles is a day of the calendar.
THEOREM TypeCorrect == ArchiveSpec => []TypeOK
BY TypeInit, ArchiveTypeStep, PTL DEF ArchiveSpec

---------------------------------------------------------------------------
(* The surroundings keep the invariant                                     *)

LEMMA IInvInit == ArchiveInit => ArchiveIInv
BY TypeInit, ArchiveAssumption
   DEF ArchiveInit, ArchiveIInv, HolderRuns, DaysAreOld, Handling, BlobExact,
       ObjectExact, Deletable, NoRowLost, RowsOf

LEMMA DawnKeeps ==
  ASSUME ArchiveIInv, NextDayDawns  PROVE ArchiveIInv'
<1>1. TypeOK'
  BY ArchiveTypeStep DEF ArchiveIInv, ArchiveNext
<1>2. \A d \in Day : Old(d) => Old(d)'
  BY ArchiveAssumption DEF ArchiveIInv, TypeOK, NextDayDawns, Old, Day
<1>3. UNCHANGED <<table, object, pending, flock, stage, todo, day, blob, written, raced>>
  BY DEF NextDayDawns, stores, locals
<1>4. HolderRuns' /\ BlobExact' /\ NoRowLost'
  BY <1>3 DEF ArchiveIInv, HolderRuns, BlobExact, NoRowLost, RowsOf
<1>5. DaysAreOld'
  BY <1>2, <1>3 DEF ArchiveIInv, TypeOK, DaysAreOld, Handling
<1>6. ObjectExact'
  BY <1>2, <1>3 DEF ArchiveIInv, ObjectExact, RowsOf
<1>7. Deletable'
  BY <1>2, <1>3 DEF ArchiveIInv, TypeOK, Deletable, RowsOf
<1> QED
  BY <1>1, <1>4, <1>5, <1>6, <1>7 DEF ArchiveIInv

\* A row comes too early to be in the window of a day past the retention.
LEMMA InsertKeeps ==
  ASSUME ArchiveIInv, NEW r \in Request, Insert(r), Lateness <= KeepDays  PROVE ArchiveIInv'
<1>1. TypeOK'
  BY ArchiveTypeStep DEF ArchiveIInv, ArchiveNext
<1>2. ~Old(StartDay[r])
  BY ArchiveAssumption DEF ArchiveIInv, TypeOK, Insert, Old, Day
<1>3. \A d \in Day : Old(d) => RowsOf(d)' = RowsOf(d)
  BY <1>2 DEF Insert, RowsOf
<1>4. \A d \in Day : Old(d)' = Old(d)
  BY DEF Insert, Old
<1>5. HolderRuns' /\ DaysAreOld'
  BY <1>4 DEF ArchiveIInv, TypeOK, Insert, locals, HolderRuns, DaysAreOld, Handling
<1>6. BlobExact'
  BY <1>3 DEF ArchiveIInv, TypeOK, Insert, locals, BlobExact, DaysAreOld, Handling
<1>7. ObjectExact'
  BY <1>3, <1>4 DEF ArchiveIInv, Insert, ObjectExact
<1>8. Deletable'
  BY <1>3, <1>4 DEF ArchiveIInv, TypeOK, Insert, locals, Deletable, DaysAreOld, Handling
<1>9. NoRowLost'
  BY DEF ArchiveIInv, Insert, NoRowLost
<1> QED
  BY <1>1, <1>5, <1>6, <1>7, <1>8, <1>9 DEF ArchiveIInv

\* The rows a DELETE removes are in the object of their day.
LEMMA ExecuteKeeps ==
  ASSUME ArchiveIInv, NEW d \in Day, ExecuteDelete(d)  PROVE ArchiveIInv'
<1>1. TypeOK'
  BY ArchiveTypeStep DEF ArchiveIInv, ArchiveNext
<1>2. \A e \in Day : RowsOf(e)' = IF e = d THEN {} ELSE RowsOf(e)
  BY DEF ExecuteDelete, RowsOf
<1>3. HolderRuns' /\ DaysAreOld'
  BY DEF ArchiveIInv, ExecuteDelete, locals, HolderRuns, DaysAreOld, Handling, Old
<1>4. BlobExact'
  <2> SUFFICES ASSUME NEW p \in Runner
               PROVE  /\ stage'[p] = "export" => RowsOf(day[p])' # {} \/ day'[p] \in raced'
                      /\ stage'[p] = "upload" =>
                           /\ RowsOf(day[p])' \in {{}, blob'[p]}
                           /\ object'[day'[p]] \subseteq blob'[p] \/ day'[p] \in raced'
    BY DEF BlobExact
  <2>1. /\ UNCHANGED <<object, stage, day, blob>> /\ raced \subseteq raced'
        /\ stage[p] = "export" /\ day[p] = d => d \in raced'
        /\ day[p] \in Day
    BY DEF ArchiveIInv, TypeOK, ExecuteDelete, locals
  <2>2. RowsOf(day[p])' = IF day[p] = d THEN {} ELSE RowsOf(day[p])
    BY <2>1 DEF ExecuteDelete, RowsOf
  <2> QED
    BY <2>1, <2>2 DEF ArchiveIInv, BlobExact
<1>5. ObjectExact'
  BY <1>2 DEF ArchiveIInv, ExecuteDelete, ObjectExact, Old
<1>6. Deletable'
  BY <1>2 DEF ArchiveIInv, TypeOK, ExecuteDelete, locals, Deletable, Old
<1>7. RowsOf(d) \subseteq object[d]
  BY DEF ArchiveIInv, Deletable, ExecuteDelete
<1>8. NoRowLost'
  BY <1>7 DEF ArchiveIInv, ExecuteDelete, NoRowLost, RowsOf
<1> QED
  BY <1>1, <1>3, <1>4, <1>5, <1>6, <1>8 DEF ArchiveIInv

---------------------------------------------------------------------------
(* The run keeps the invariant                                             *)

LEMMA ExitKeeps ==
  ASSUME ArchiveIInv, NEW p \in Runner, stage[p] # "idle", Exit(p), TypeOK',
         pending' \subseteq pending,
         UNCHANGED <<today, table, written, raced>>, ObjectExact', NoRowLost',
         \A d \in pending : RowsOf(d) \subseteq object'[d]
  PROVE  ArchiveIInv'
<1>1. \A q \in Runner : stage'[q] = "idle"
  BY DEF ArchiveIInv, TypeOK, HolderRuns, Exit, Proceed
<1>2. HolderRuns' /\ BlobExact'
  BY <1>1 DEF HolderRuns, BlobExact
<1>3. DaysAreOld'
  BY <1>1 DEF ArchiveIInv, TypeOK, DaysAreOld, Exit, Handling, Old
<1>4. Deletable'
  BY <1>1 DEF ArchiveIInv, Deletable, Old, RowsOf
<1> QED
  BY <1>2, <1>3, <1>4 DEF ArchiveIInv

LEMMA LaunchKeeps ==
  ASSUME ArchiveIInv, NEW p \in Runner, Launch(p)  PROVE ArchiveIInv'
<1>1. TypeOK'
  BY ArchiveTypeStep DEF ArchiveIInv, ArchiveNext
<1>2. \A q \in Runner : stage[q] = "idle"
  BY ArchiveAssumption DEF ArchiveIInv, HolderRuns, Launch, LockFree
<1>3. HolderRuns' /\ DaysAreOld' /\ BlobExact' /\ Deletable'
  BY <1>2 DEF ArchiveIInv, TypeOK, Launch, Proceed, stores, locals, HolderRuns,
              DaysAreOld, Handling, Old, RowsOf, BlobExact, Deletable
<1>4. ObjectExact' /\ NoRowLost'
  BY DEF ArchiveIInv, Launch, stores, ObjectExact, Old, RowsOf, NoRowLost
<1> QED
  BY <1>1, <1>3, <1>4 DEF ArchiveIInv

LEMMA CandidateDaysKeeps ==
  ASSUME ArchiveIInv, NEW p \in Runner, NEW limit \in Limit, CandidateDays(p, limit)  PROVE ArchiveIInv'
<1>1. TypeOK'
  BY ArchiveTypeStep DEF ArchiveIInv, ArchiveNext, RunnerStep
<1>2. \A d \in Earliest(Eligible, limit) : Old(d)
  BY DEF Earliest, Eligible, Old
<1>3. DaysAreOld'
  BY <1>2 DEF ArchiveIInv, TypeOK, CandidateDays, Proceed, DaysAreOld, Handling, Old
<1>4. HolderRuns' /\ BlobExact' /\ Deletable'
  BY DEF ArchiveIInv, TypeOK, CandidateDays, Proceed, stores, HolderRuns, BlobExact,
         Deletable, Old, RowsOf
<1>5. ObjectExact' /\ NoRowLost'
  BY DEF ArchiveIInv, CandidateDays, stores, ObjectExact, Old, RowsOf, NoRowLost
<1> QED
  BY <1>1, <1>3, <1>4, <1>5 DEF ArchiveIInv

LEMMA CountDayKeeps ==
  ASSUME ArchiveIInv, NEW p \in Runner, NEW d \in Day, CountDay(p, d)  PROVE ArchiveIInv'
<1>1. TypeOK'
  BY ArchiveTypeStep DEF ArchiveIInv, ArchiveNext, RunnerStep
<1>2. DaysAreOld'
  BY DEF ArchiveIInv, TypeOK, CountDay, Proceed, DaysAreOld, Handling, Old
<1>3. HolderRuns' /\ BlobExact' /\ Deletable'
  BY DEF ArchiveIInv, TypeOK, CountDay, Proceed, stores, HolderRuns, BlobExact,
         Deletable, Old, RowsOf
<1>4. ObjectExact' /\ NoRowLost'
  BY DEF ArchiveIInv, CountDay, stores, ObjectExact, Old, RowsOf, NoRowLost
<1> QED
  BY <1>1, <1>2, <1>3, <1>4 DEF ArchiveIInv

LEMMA FinishKeeps ==
  ASSUME ArchiveIInv, NEW p \in Runner, Finish(p)  PROVE ArchiveIInv'
<1>1. TypeOK'
  BY ArchiveTypeStep DEF ArchiveIInv, ArchiveNext, RunnerStep
<1>2. ObjectExact' /\ NoRowLost'
  BY DEF ArchiveIInv, Finish, stores, ObjectExact, Old, RowsOf, NoRowLost
<1> QED
  BY <1>1, <1>2, ExitKeeps DEF Finish, stores, ArchiveIInv, Deletable

LEMMA ExportDayKeeps ==
  ASSUME ArchiveIInv, NEW p \in Runner, ExportDay(p)  PROVE ArchiveIInv'
<1>1. TypeOK'
  BY ArchiveTypeStep DEF ArchiveIInv, ArchiveNext, RunnerStep
<1>2. HolderRuns' /\ DaysAreOld' /\ Deletable'
  BY DEF ArchiveIInv, TypeOK, ExportDay, Proceed, stores, HolderRuns, DaysAreOld,
         Handling, Deletable, Old, RowsOf
<1>2a. BlobExact'
  <2>1. object[day[p]] \subseteq RowsOf(day[p]) \/ day[p] \in raced
    BY DEF ArchiveIInv, TypeOK, BlobExact, ObjectExact, ExportDay
  <2> QED
    BY <2>1 DEF ArchiveIInv, TypeOK, ExportDay, Proceed, stores, BlobExact, RowsOf
<1>3. ObjectExact' /\ NoRowLost'
  BY DEF ArchiveIInv, ExportDay, stores, ObjectExact, Old, RowsOf, NoRowLost
<1> QED
  BY <1>1, <1>2, <1>2a, <1>3 DEF ArchiveIInv

\* An upload puts the rows of the window into the object of its day, and the
\* object loses none, unless the day was deleted between count and export.
LEMMA UploadExact ==
  ASSUME ArchiveIInv, NEW p \in Runner, stage[p] = "upload",
         object' \in {object, [object EXCEPT ![day[p]] = blob[p]]},
         UNCHANGED <<today, table, written, raced>>
  PROVE  /\ ObjectExact' /\ NoRowLost'
         /\ \A d \in Day : d \in raced \/ object[d] \subseteq object'[d]
         /\ \A d \in Day : RowsOf(d) \subseteq object[d] => RowsOf(d) \subseteq object'[d]
<1>1. CASE object' = object
  BY <1>1 DEF ArchiveIInv, ObjectExact, NoRowLost, Old, RowsOf
<1>2. CASE object' = [object EXCEPT ![day[p]] = blob[p]]
  <2>1. /\ day[p] \in Day /\ Old(day[p])
        /\ RowsOf(day[p]) \in {{}, blob[p]}
        /\ object[day[p]] \subseteq blob[p] \/ day[p] \in raced
    BY DEF ArchiveIInv, TypeOK, DaysAreOld, Handling, BlobExact
  <2>3. \A d \in Day : object'[d] = IF d = day[p] THEN blob[p] ELSE object[d]
    BY <1>2, <2>1 DEF ArchiveIInv, TypeOK
  <2>4. ObjectExact'
    BY <2>1, <2>3 DEF ArchiveIInv, ObjectExact, Old, RowsOf
  <2>5. /\ \A d \in Day : d \in raced \/ object[d] \subseteq object'[d]
        /\ \A d \in Day : RowsOf(d) \subseteq object[d] => RowsOf(d) \subseteq object'[d]
    BY <2>1, <2>3
  <2>6. \A r \in written : StartDay[r] \in Day
    BY ArchiveAssumption DEF ArchiveIInv, TypeOK
  <2>7. NoRowLost'
    BY <2>5, <2>6 DEF ArchiveIInv, NoRowLost
  <2> QED
    BY <2>4, <2>5, <2>7
<1> QED
  BY <1>1, <1>2

LEMMA UploadSucceedsKeeps ==
  ASSUME ArchiveIInv, NEW p \in Runner, UploadSucceeds(p)  PROVE ArchiveIInv'
<1>1. TypeOK'
  BY ArchiveTypeStep DEF ArchiveIInv, ArchiveNext, RunnerStep
<1>2. ObjectExact' /\ NoRowLost'
  BY UploadExact DEF UploadSucceeds
<1>3. \A q \in Runner : q # p => stage[q] = "idle"
  BY DEF ArchiveIInv, HolderRuns, UploadSucceeds
<1>4. HolderRuns' /\ DaysAreOld' /\ BlobExact'
  BY <1>3 DEF ArchiveIInv, TypeOK, UploadSucceeds, Proceed, locals, HolderRuns,
              DaysAreOld, Handling, BlobExact, Old, RowsOf
<1>5. RowsOf(day[p]) \subseteq object'[day[p]] /\ day[p] \in Day
  BY DEF ArchiveIInv, TypeOK, BlobExact, UploadSucceeds
<1>5a. \A d \in Day : RowsOf(d) \subseteq object[d] => RowsOf(d) \subseteq object'[d]
  BY UploadExact DEF UploadSucceeds
<1>5b. /\ UNCHANGED <<today, table, pending, day>> /\ stage[p] = "upload"
       /\ stage' = [stage EXCEPT ![p] = "index"]
  BY DEF UploadSucceeds, Proceed, locals
<1>6. Deletable'
  <2>1. \A d \in Day : RowsOf(d)' = RowsOf(d) /\ Old(d)' = Old(d)
    BY <1>5b DEF RowsOf, Old
  <2>2. \A d \in pending : d \in Day /\ Old(d) /\ RowsOf(d) \subseteq object'[d]
    BY <1>5a DEF ArchiveIInv, TypeOK, Deletable
  <2>3. \A q \in Runner : stage'[q] \in {"index", "delete", "deleting"} => q = p
    BY <1>3, <1>5b DEF ArchiveIInv, TypeOK
  <2> QED
    BY <1>5, <1>5b, <2>1, <2>2, <2>3 DEF Deletable
<1> QED
  BY <1>1, <1>2, <1>4, <1>6 DEF ArchiveIInv, UploadSucceeds

LEMMA UploadFailsKeeps ==
  ASSUME ArchiveIInv, NEW p \in Runner, UploadFails(p)  PROVE ArchiveIInv'
<1>1. TypeOK'
  BY ArchiveTypeStep DEF ArchiveIInv, ArchiveNext, Fault
<1>2. /\ ObjectExact' /\ NoRowLost'
      /\ \A d \in Day : RowsOf(d) \subseteq object[d] => RowsOf(d) \subseteq object'[d]
  BY UploadExact DEF UploadFails
<1>2a. \A d \in pending : RowsOf(d) \subseteq object'[d]
  BY <1>2 DEF ArchiveIInv, TypeOK, Deletable
<1>3. CASE UNCHANGED <<stage, flock, todo, day, blob, worked>>
  <2>1. \A q \in Runner : q # p => stage[q] = "idle"
    BY DEF ArchiveIInv, HolderRuns, UploadFails
  <2>2. HolderRuns' /\ DaysAreOld'
    BY <1>3 DEF ArchiveIInv, UploadFails, HolderRuns, DaysAreOld, Handling, Old
  <2>2a. \A q \in Runner : stage[q] \notin {"idle", "upload"} => FALSE
    BY <2>1 DEF UploadFails
  <2>2b. object'[day[p]] \in {object[day[p]], blob[p]}
    BY DEF ArchiveIInv, TypeOK, UploadFails
  <2>2c. BlobExact'
    BY <1>3, <2>1, <2>2b DEF ArchiveIInv, UploadFails, BlobExact, RowsOf
  <2>3. Deletable'
    BY <1>2a, <1>3, <2>2a DEF ArchiveIInv, UploadFails, Deletable, Old, RowsOf
  <2> QED
    BY <1>1, <1>2, <2>2, <2>2c, <2>3 DEF ArchiveIInv, UploadFails
<1>4. CASE Exit(p)
  BY <1>1, <1>2, <1>2a, <1>4, ExitKeeps DEF UploadFails, RowsOf
<1> QED
  BY <1>3, <1>4 DEF UploadFails

LEMMA IndexKeeps ==
  ASSUME ArchiveIInv, NEW p \in Runner, CleanIndex(p) \/ SkipIndex(p)  PROVE ArchiveIInv'
<1>1. TypeOK'
  BY ArchiveTypeStep DEF ArchiveIInv, ArchiveNext, RunnerStep, Fault
<1>2. /\ stage[p] = "index" /\ stage' = [stage EXCEPT ![p] = "delete"]
      /\ UNCHANGED <<today, table, object, pending, flock, todo, day, blob, written, raced>>
  BY DEF CleanIndex, SkipIndex, Proceed, stores, locals
<1>3. HolderRuns' /\ DaysAreOld' /\ BlobExact' /\ Deletable'
  BY <1>2 DEF ArchiveIInv, TypeOK, HolderRuns, DaysAreOld, Handling, BlobExact,
              Deletable, Old, RowsOf
<1>4. ObjectExact' /\ NoRowLost'
  BY <1>2 DEF ArchiveIInv, ObjectExact, Old, RowsOf, NoRowLost
<1> QED
  BY <1>1, <1>3, <1>4 DEF ArchiveIInv

LEMMA SendDeleteKeeps ==
  ASSUME ArchiveIInv, NEW p \in Runner, SendDelete(p)  PROVE ArchiveIInv'
<1>1. TypeOK'
  BY ArchiveTypeStep DEF ArchiveIInv, ArchiveNext, RunnerStep
<1>2. \A q \in Runner : q # p => stage[q] = "idle"
  BY DEF ArchiveIInv, HolderRuns, SendDelete
<1>3. pending' = pending \cup {day[p]}
  BY DEF SendDelete
<1>4. HolderRuns' /\ DaysAreOld' /\ BlobExact'
  BY <1>2, <1>3 DEF ArchiveIInv, TypeOK, SendDelete, Proceed, locals, HolderRuns,
                    DaysAreOld, Handling, BlobExact, Old, RowsOf
<1>5. Deletable'
  BY <1>3 DEF ArchiveIInv, TypeOK, SendDelete, Proceed, locals, Deletable, DaysAreOld,
              Handling, Old, RowsOf
<1>6. ObjectExact' /\ NoRowLost'
  BY DEF ArchiveIInv, SendDelete, ObjectExact, Old, RowsOf, NoRowLost
<1> QED
  BY <1>1, <1>4, <1>5, <1>6 DEF ArchiveIInv

LEMMA DeleteReturnsKeeps ==
  ASSUME ArchiveIInv, NEW p \in Runner, DeleteReturns(p)  PROVE ArchiveIInv'
<1>1. TypeOK'
  BY ArchiveTypeStep DEF ArchiveIInv, ArchiveNext, RunnerStep
<1>3. HolderRuns' /\ DaysAreOld' /\ BlobExact' /\ Deletable'
  BY DEF ArchiveIInv, TypeOK, DeleteReturns, Proceed, stores, locals, HolderRuns,
              DaysAreOld, Handling, BlobExact, Deletable, Old, RowsOf
<1>4. ObjectExact' /\ NoRowLost'
  BY DEF ArchiveIInv, DeleteReturns, stores, ObjectExact, Old, RowsOf, NoRowLost
<1> QED
  BY <1>1, <1>3, <1>4 DEF ArchiveIInv

LEMMA AbortKeeps ==
  ASSUME ArchiveIInv, NEW p \in Runner, Abort(p)  PROVE ArchiveIInv'
<1>1. TypeOK'
  BY ArchiveTypeStep DEF ArchiveIInv, ArchiveNext, Fault
<1>2. ObjectExact' /\ NoRowLost'
  BY DEF ArchiveIInv, Abort, ObjectExact, Old, RowsOf, NoRowLost
<1> QED
  BY <1>1, <1>2, ExitKeeps DEF Abort, ArchiveIInv, Deletable

---------------------------------------------------------------------------
(* The theorems                                                            *)

LEMMA Inductive ==
  ASSUME Lateness <= KeepDays, ArchiveIInv, [ArchiveNext]_archiveVars  PROVE ArchiveIInv'
<1>1. CASE UNCHANGED archiveVars
  <2>1. TypeOK'
    BY <1>1, ArchiveTypeStep DEF ArchiveIInv
  <2> QED
    BY <1>1, <2>1 DEF ArchiveIInv, archiveVars, stores, locals, HolderRuns, DaysAreOld,
         Handling, BlobExact, ObjectExact, Deletable, Old, RowsOf, NoRowLost
<1>2. CASE ArchiveNext
  BY <1>2, DawnKeeps, InsertKeeps, ExecuteKeeps, LaunchKeeps, CandidateDaysKeeps,
     CountDayKeeps, FinishKeeps, ExportDayKeeps, UploadSucceedsKeeps, UploadFailsKeeps,
     IndexKeeps, SendDeleteKeeps, DeleteReturnsKeeps, AbortKeeps
     DEF ArchiveNext, RunnerStep, Fault
<1> QED
  BY <1>1, <1>2

LEMMA ArchiveInvariance ==
  ASSUME Lateness <= KeepDays  PROVE ArchiveSpec => []ArchiveIInv
BY IInvInit, Inductive, PTL DEF ArchiveSpec

\* Whatever fails or is killed, and however often an upload is repeated, every
\* spend row that was written is in the database or in the object of its day,
\* but for the days that the DELETE of a dead run emptied between the count and
\* the export of the next run.
THEOREM RowsAreKept ==
  ASSUME Lateness <= KeepDays  PROVE ArchiveSpec => []NoRowLost
<1>1. ArchiveIInv => NoRowLost
  BY DEF ArchiveIInv
<1> QED
  BY <1>1, ArchiveInvariance, PTL

\* No run, first or repeated, takes a row out of an object, but for those days.
THEOREM ArchiveMonotone ==
  ASSUME Lateness <= KeepDays  PROVE ArchiveSpec => ArchiveOnlyGrows
<1>1. ArchiveIInv /\ [ArchiveNext]_archiveVars =>
        [\A d \in Day : d \in raced \/ object[d] \subseteq object'[d]]_archiveVars
  <2> SUFFICES ASSUME ArchiveIInv, ArchiveNext
               PROVE  \A d \in Day : d \in raced \/ object[d] \subseteq object'[d]
    OBVIOUS
  <2>1. ASSUME NEW p \in Runner, UploadSucceeds(p) \/ UploadFails(p)
        PROVE  \A d \in Day : d \in raced \/ object[d] \subseteq object'[d]
    BY <2>1, UploadExact DEF UploadSucceeds, UploadFails
  <2>2. \/ UNCHANGED object
        \/ \E p \in Runner : UploadSucceeds(p) \/ UploadFails(p)
    BY DEF ArchiveNext, RunnerStep, Fault, NextDayDawns, Insert, ExecuteDelete, Launch, CandidateDays,
           CountDay, Finish, ExportDay, CleanIndex, SkipIndex, SendDelete, DeleteReturns,
           Abort, stores
  <2> QED
    BY <2>1, <2>2
<1> QED
  BY <1>1, ArchiveInvariance, PTL DEF ArchiveSpec, ArchiveOnlyGrows

\* A row leaves the database only past the retention and once it is archived.
THEOREM DeletedIsArchived ==
  ASSUME Lateness <= KeepDays  PROVE ArchiveSpec => RetentionKept
<1>1. ArchiveIInv /\ [ArchiveNext]_archiveVars =>
        [\A r \in table \ table' :
           StartDay[r] < today - KeepDays /\ r \in object[StartDay[r]]]_archiveVars
  <2> SUFFICES ASSUME ArchiveIInv, ArchiveNext, NEW r \in table \ table'
               PROVE  StartDay[r] < today - KeepDays /\ r \in object[StartDay[r]]
    OBVIOUS
  <2>1. PICK d \in Day : ExecuteDelete(d)
    BY DEF ArchiveNext, RunnerStep, Fault, NextDayDawns, Insert, Launch, CandidateDays, CountDay,
           Finish, ExportDay, UploadSucceeds, UploadFails, CleanIndex, SkipIndex,
           SendDelete, DeleteReturns, Abort, stores
  <2>2. StartDay[r] = d
    BY <2>1 DEF ExecuteDelete, RowsOf
  <2> QED
    BY <2>1, <2>2 DEF ArchiveIInv, Deletable, ExecuteDelete, Old, RowsOf
<1> QED
  BY <1>1, ArchiveInvariance, PTL DEF ArchiveSpec, RetentionKept

---------------------------------------------------------------------------
(* The index                                                               *)

\* The rows that a DELETE is about to remove, sent or not, have no entry any
\* more, or the run has warned.
Cleaned(d) == index \cap RowsOf(d) = {} \/ d \in skipped

IndexInv ==
  /\ IndexFollowsRows
  /\ \A p \in Runner : stage[p] \in {"delete", "deleting"} => Cleaned(day[p])
  /\ \A d \in pending : Cleaned(d)

LEMMA IndexInit == ArchiveInit => IndexInv
BY DEF ArchiveInit, IndexInv, IndexFollowsRows, Cleaned

\* The window of a day that is handled takes no new row, so no new entry
\* follows the cleanup.
LEMMA InsertIndex ==
  ASSUME ArchiveIInv, IndexInv, NEW r \in Request, Insert(r), Lateness <= KeepDays
  PROVE  IndexInv'
<1>1. ~Old(StartDay[r])
  BY ArchiveAssumption DEF ArchiveIInv, TypeOK, Insert, Old, Day
<1>2. /\ index' \subseteq index \cup {r} /\ table' = table \cup {r}
      /\ UNCHANGED <<stage, day, pending, skipped>>
  BY DEF Insert, locals
<1>3. \A d \in Day : Old(d) /\ Cleaned(d) => Cleaned(d)'
  BY <1>1, <1>2 DEF Cleaned, RowsOf
<1>4. \A p \in Runner : stage[p] \in {"delete", "deleting"} => Old(day[p]) /\ day[p] \in Day
  BY DEF ArchiveIInv, TypeOK, DaysAreOld, Handling
<1>5. \A d \in pending : Old(d) /\ d \in Day
  BY DEF ArchiveIInv, TypeOK, Deletable
<1>6. IndexFollowsRows'
  BY <1>2 DEF IndexInv, IndexFollowsRows
<1> QED BY <1>2, <1>3, <1>4, <1>5, <1>6 DEF IndexInv

LEMMA ExecuteIndex ==
  ASSUME ArchiveIInv, IndexInv, NEW d \in Day, ExecuteDelete(d)
  PROVE  IndexInv'
<1>1. /\ table' = table \ RowsOf(d) /\ pending' = pending \ {d} /\ d \in pending
      /\ UNCHANGED <<index, stage, day, skipped>>
  BY DEF ExecuteDelete, locals
<1>2. \A e \in Day : Cleaned(e) => Cleaned(e)'
  BY <1>1 DEF Cleaned, RowsOf
<1>3. Cleaned(d)
  BY <1>1 DEF IndexInv
<1>4. IndexFollowsRows'
  BY <1>1, <1>3 DEF IndexInv, IndexFollowsRows, Cleaned, RowsOf
<1> QED BY <1>1, <1>2, <1>4 DEF IndexInv, ArchiveIInv, TypeOK

\* The cleanup, or the warning that it was skipped, precedes the DELETE.
LEMMA CleanupIndex ==
  ASSUME ArchiveIInv, IndexInv, NEW p \in Runner, CleanIndex(p) \/ SkipIndex(p)
  PROVE  IndexInv'
<1>1. /\ table' = table /\ pending' = pending /\ day' = day
      /\ stage' = [stage EXCEPT ![p] = "delete"]
      /\ index' \subseteq index /\ skipped \subseteq skipped'
  BY DEF CleanIndex, SkipIndex, Proceed, stores, locals
<1>2. \A d \in Day : Cleaned(d) => Cleaned(d)'
  BY <1>1 DEF Cleaned, RowsOf
<1>3. Cleaned(day[p])'
  BY <1>1 DEF CleanIndex, SkipIndex, Cleaned, RowsOf, stores
<1>4. IndexFollowsRows'
  BY <1>1 DEF IndexInv, IndexFollowsRows
<1> QED BY <1>1, <1>2, <1>3, <1>4 DEF IndexInv, ArchiveIInv, TypeOK

\* Every other step leaves the rows, the entries and the warnings alone, and
\* a DELETE is sent by the run that cleaned up.
LEMMA OtherIndex ==
  ASSUME ArchiveIInv, IndexInv, UNCHANGED <<table, index, skipped>>,
         \A p \in Runner : stage'[p] \in {"delete", "deleting"}
           => stage[p] \in {"delete", "deleting"} /\ day'[p] = day[p],
         \A d \in pending' : d \in pending \/ \E p \in Runner : stage[p] = "delete" /\ d = day[p]
  PROVE  IndexInv'
BY DEF IndexInv, IndexFollowsRows, Cleaned, RowsOf

LEMMA RunIndex ==
  ASSUME ArchiveIInv, IndexInv, NEW p \in Runner, Launch(p) \/ RunnerStep(p) \/ Fault(p)
  PROVE  IndexInv'
<1> USE DEF ArchiveIInv, TypeOK, Proceed, Exit, stores, locals
<1>1. CASE CleanIndex(p) \/ SkipIndex(p)
  BY <1>1, CleanupIndex
<1>2. CASE Launch(p)
  BY <1>2, OtherIndex DEF Launch
<1>3. ASSUME NEW limit \in Limit, CandidateDays(p, limit) PROVE IndexInv'
  BY <1>3, OtherIndex DEF CandidateDays
<1>4. ASSUME NEW d \in Day, CountDay(p, d) PROVE IndexInv'
  BY <1>4, OtherIndex DEF CountDay
<1>5. CASE Finish(p)
  BY <1>5, OtherIndex DEF Finish
<1>6. CASE ExportDay(p)
  BY <1>6, OtherIndex DEF ExportDay
<1>7. CASE UploadSucceeds(p)
  BY <1>7, OtherIndex DEF UploadSucceeds
<1>8. CASE UploadFails(p)
  BY <1>8, OtherIndex DEF UploadFails
<1>9. CASE SendDelete(p)
  BY <1>9, OtherIndex DEF SendDelete
<1>10. CASE DeleteReturns(p)
  BY <1>10, OtherIndex DEF DeleteReturns
<1>11. CASE Abort(p)
  BY <1>11, OtherIndex DEF Abort
<1> QED BY <1>1, <1>2, <1>3, <1>4, <1>5, <1>6, <1>7, <1>8, <1>9, <1>10, <1>11
       DEF RunnerStep, Fault

LEMMA IndexInductive ==
  ASSUME Lateness <= KeepDays, ArchiveIInv, IndexInv, [ArchiveNext]_archiveVars
  PROVE  IndexInv'
<1>1. CASE NextDayDawns \/ UNCHANGED archiveVars
  BY <1>1, OtherIndex DEF NextDayDawns, archiveVars, stores, locals
<1> QED BY <1>1, InsertIndex, ExecuteIndex, RunIndex DEF ArchiveNext

\* An index entry whose row is gone is one the run has warned about, although
\* cleanup and DELETE are statements of their own and rows keep coming.
THEOREM IndexCorrect ==
  ASSUME Lateness <= KeepDays  PROVE ArchiveSpec => []IndexFollowsRows
<1>1. IndexInv => IndexFollowsRows
  BY DEF IndexInv
<1>2. ArchiveIInv /\ IndexInv /\ [ArchiveNext]_archiveVars => IndexInv'
  BY IndexInductive
<1> QED BY <1>1, <1>2, IndexInit, ArchiveInvariance, PTL DEF ArchiveSpec
=============================================================================
