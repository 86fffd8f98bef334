---------------------------- MODULE OAuthFailover ---------------------------
(***************************************************************************)
(* The Claude credential of the gateway.  Threads pick the token of a      *)
(* request: the host's snapshot file, cached by its modification time, or  *)
(* the fallback account while the primary one is cooling down; and they    *)
(* report the requests that were rate limited, which arms the cooldown.    *)
(* Beside them the host logs in anew, mirrors the login into the file, and *)
(* the file may go missing.  One lock guards the caches and the cooldown,  *)
(* but a call takes it twice and the file is not under it.                 *)
(*                                                                         *)
(* CCPROXY_ANTHROPIC_OAUTH_TOKEN_FILE is set, so a call never gets past    *)
(* the file and the static token to the shell command of oat_sources.      *)
(***************************************************************************)
EXTENDS Naturals, FiniteSets

CONSTANTS
  Thread,                    \* calls at a time
  Static, Fallback, NoToken, \* CLAUDE_CODE_OAUTH_TOKEN, ANTHROPIC_FALLBACK_TOKEN
  CooldownSeconds, ProbeSeconds,
  MaxLogin,                  \* bound of the model: logins
  MaxWrites,                 \* bound of the model: writes of the file
  MaxClock                   \* bound of the model: time

\* Logins are numbered; the number stands for the token.
Login == 1..MaxLogin

ASSUME TokenAssumption ==
  /\ CooldownSeconds \in Nat \ {0} /\ ProbeSeconds \in Nat
  /\ MaxLogin \in Nat \ {0} /\ MaxWrites \in Nat \ {0} /\ MaxClock \in Nat
  /\ {Static, Fallback, NoToken} \cap Nat = {}
  /\ Cardinality({Static, Fallback, NoToken}) = 3

VARIABLES
  env,       \* which of the two environment tokens are set
  login,     \* the host's login
  expired,   \* logins past their expiresAt
  file,      \* the snapshot: modification time and token
  writes,    \* history: the latest modification time
  clock,     \* time.monotonic()
  cooldown,  \* _anthropic_primary_cooldown_until
  fileCache, \* _ANTHROPIC_FILE_TOKEN_CACHE
  cache,     \* the token of _OAUTH_TOKEN_CACHE['anthropic']
  pc, mtime, token, \* per thread: position, mtime, file_token, then the result
  held,      \* history, per thread: what the file held while it was looked at
  armedOver  \* history: what cache held when the cooldown was armed
host == <<env, login, expired, file, writes>>
shared == <<cooldown, fileCache, cache>>
thread == <<pc, mtime, token>>
history == <<held, armedOver>>

authVars == <<host, clock, shared, thread, history>>

Absent == [mtime |-> 0, token |-> NoToken]

AuthInit ==
  /\ env \in [static : BOOLEAN, fallback : BOOLEAN]
  /\ login = 1 /\ expired = {} /\ file = Absent /\ writes = 0
  /\ clock = 0 /\ cooldown = 0 /\ fileCache = Absent /\ cache = NoToken
  /\ pc = [t \in Thread |-> "idle"]
  /\ mtime = [t \in Thread |-> 0]
  /\ token = [t \in Thread |-> NoToken]
  /\ held = [t \in Thread |-> {}]
  /\ armedOver = NoToken

Goto(t, label) == pc' = [pc EXCEPT ![t] = label]
Takes(t, tok) == token' = [token EXCEPT ![t] = tok]

\* The call is over; its locals are gone.
Ends(t) ==
  /\ Goto(t, "idle")
  /\ Takes(t, NoToken)
  /\ held' = [held EXCEPT ![t] = {}]

CoolingDown == clock < cooldown

-----------------------------------------------------------------------------
(* The host.                                                               *)

\* Claude Code refreshes its login.
LogIn ==
  /\ login < MaxLogin
  /\ login' = login + 1
  /\ UNCHANGED <<env, expired, file, writes, clock, shared, thread, history>>

Writes(f) ==
  /\ file' = f
  /\ held' = [t \in Thread |-> IF pc[t] \in {"exists", "stat", "load"}
                              THEN held[t] \cup {f.token} ELSE held[t]]
  /\ UNCHANGED <<env, login, expired, clock, shared, thread, armedOver>>

\* sync-claude-oauth.py: a rename replaces the file by the current login,
\* unless that has expired or is there already.
Sync ==
  /\ login \notin expired
  /\ file.token # login
  /\ writes < MaxWrites
  /\ writes' = writes + 1
  /\ Writes([mtime |-> writes + 1, token |-> login])

\* The mount or the file goes missing.
FileLost ==
  /\ file # Absent
  /\ Writes(Absent)
  /\ UNCHANGED writes

Expire ==
  /\ \E l \in 1..login \ expired : expired' = expired \cup {l}
  /\ UNCHANGED <<env, login, file, writes, clock, shared, thread, history>>

TimePasses ==
  /\ clock < MaxClock
  /\ clock' = clock + 1
  /\ UNCHANGED <<host, shared, thread, history>>

-----------------------------------------------------------------------------
(* _anthropic_oauth_token_for_model and _get_live_oauth_token.             *)

\* A direct call.  The router's own hop to a fallback deployment takes the
\* fallback token without looking at any of this, and its failure is ignored.
Asks(t) ==
  /\ pc[t] = "idle"
  /\ Goto(t, "exists")
  /\ Takes(t, NoToken)
  /\ held' = [held EXCEPT ![t] = {file.token}]
  /\ UNCHANGED <<host, clock, shared, mtime, armedOver>>

\* elif not os.getenv('CLAUDE_CODE_OAUTH_TOKEN')
RefusesAbsent == ~env.static

Exists(t) ==
  /\ pc[t] = "exists"
  /\ IF file # Absent THEN Goto(t, "stat")
     ELSE IF RefusesAbsent THEN Goto(t, "refused")
     ELSE Goto(t, "select")
  /\ UNCHANGED <<host, clock, shared, mtime, token, history>>

Stat(t) ==
  /\ pc[t] = "stat"
  /\ IF file # Absent
       THEN mtime' = [mtime EXCEPT ![t] = file.mtime] /\ Goto(t, "load")
       ELSE UNCHANGED mtime /\ Goto(t, "refused")
  /\ UNCHANGED <<host, clock, shared, token, history>>

\* mutant: once read, the file is not read again
CachedOnce(t) == fileCache # Absent

Cached(t) == fileCache # Absent /\ fileCache.mtime = mtime[t]

Gone(t) == ~Cached(t) /\ file = Absent

\* Under the lock: the cached token of that time, or the file as it is now,
\* which is cached under the time that was read before.  Then its expiry.
Load(t) ==
  /\ pc[t] = "load"
  /\ IF Gone(t)
       THEN Goto(t, "refused") /\ UNCHANGED <<fileCache, token>>
       ELSE /\ fileCache' = IF Cached(t) THEN fileCache
                            ELSE [mtime |-> mtime[t], token |-> file.token]
            /\ Takes(t, fileCache'.token)
            /\ Goto(t, IF fileCache'.token \in expired THEN "refused" ELSE "select")
  /\ mtime' = [mtime EXCEPT ![t] = 0]
  /\ UNCHANGED <<host, clock, cooldown, cache, history>>

\* mutant: a new token inherits the cooldown
CooldownKept(t) == cooldown

\* A token that is not the installed one starts without a cooldown.
CooldownFor(t) ==
  IF token[t] # NoToken /\ cache # token[t] THEN 0 ELSE cooldown

\* file_token or os.getenv('CLAUDE_CODE_OAUTH_TOKEN')
PrimaryToken(t) ==
  IF token[t] = NoToken /\ env.static THEN Static ELSE token[t]

\* Under the lock again: the fallback while the cooldown is in force, else
\* the primary token, which is installed.
Select(t) ==
  /\ pc[t] = "select"
  /\ cooldown' = CooldownFor(t)
  /\ IF clock < cooldown' /\ env.fallback
       THEN Takes(t, Fallback) /\ cache' = cache
       ELSE Takes(t, PrimaryToken(t)) /\ cache' = PrimaryToken(t)
  /\ Goto(t, "sent")
  /\ UNCHANGED <<host, clock, fileCache, mtime, history>>

\* except ValueError: the fallback account, or the request fails.
Refused(t) ==
  /\ pc[t] = "refused"
  /\ IF env.fallback
       THEN Takes(t, Fallback) /\ Goto(t, "sent") /\ held' = held
       ELSE Ends(t)
  /\ UNCHANGED <<host, clock, shared, mtime, armedOver>>

-----------------------------------------------------------------------------
(* The request and _maybe_arm_anthropic_cooldown.                          *)

\* The request succeeds or fails; without a fallback account the failure
\* callback returns at once.
Answered(t) ==
  /\ pc[t] = "sent"
  /\ Ends(t)
  /\ UNCHANGED <<host, clock, shared, mtime, armedOver>>

Failed(t) ==
  /\ pc[t] = "sent" /\ env.fallback
  /\ Goto(t, "failed")
  /\ UNCHANGED <<host, clock, shared, mtime, token, history>>

\* The fallback failed, for any reason: the primary is probed soon.
CapCooldown(t) ==
  /\ pc[t] = "failed" /\ token[t] = Fallback
  /\ cooldown' = IF cooldown > clock + ProbeSeconds THEN clock + ProbeSeconds
                 ELSE cooldown
  /\ Ends(t)
  /\ UNCHANGED <<host, clock, fileCache, cache, mtime, armedOver>>

\* The first test, under the lock; then the failure is classified.
CheckCooldown(t) ==
  /\ pc[t] = "failed" /\ token[t] # Fallback
  /\ \/ ~CoolingDown /\ Goto(t, "arming") /\ UNCHANGED <<token, held>>
     \/ Ends(t)
  /\ UNCHANGED <<host, clock, shared, mtime, armedOver>>

\* mutant: the cooldown is not tested again under the second lock
ArmableAnyway == TRUE

Armable == ~CoolingDown

\* The second test and the arming, under the lock.
Arm(t) ==
  /\ pc[t] = "arming"
  /\ IF Armable
       THEN /\ cooldown' = clock + CooldownSeconds
            /\ armedOver' = cache
       ELSE UNCHANGED <<cooldown, armedOver>>
  /\ Ends(t)
  /\ UNCHANGED <<host, clock, fileCache, cache, mtime>>

-----------------------------------------------------------------------------
Host == LogIn \/ Sync \/ FileLost \/ Expire \/ TimePasses

Gateway(t) ==
  \/ Asks(t) \/ Exists(t) \/ Stat(t) \/ Load(t) \/ Select(t) \/ Refused(t)
  \/ Answered(t) \/ Failed(t) \/ CapCooldown(t) \/ CheckCooldown(t) \/ Arm(t)

AuthNext == Host \/ \E t \in Thread : Gateway(t)

AuthSpec == AuthInit /\ [][AuthNext]_authVars

-----------------------------------------------------------------------------
(* Properties.                                                             *)

\* A login that a request goes out with is one the file held while the call
\* looked at it, never an older one out of the cache, although the file is
\* renamed over at any time and read outside the lock: the time the cache is
\* keyed by was read before the contents (oauth.py:152-163).  And a call is
\* refused the primary credential only when the file was missing while it
\* looked, or held a login that is expired: no stale cache entry makes a good
\* file look bad (oauth.py:164-169).
AsTheFile ==
  \A t \in Thread :
    /\ pc[t] \in {"select", "sent"} /\ token[t] \in Login => token[t] \in held[t]
    /\ pc[t] = "refused" => NoToken \in held[t] \/ held[t] \cap expired # {}

\* A burst of rate-limited requests arms the cooldown once: whatever the
\* threads found before they classified their failures, a cooldown in force
\* is not extended (oauth.py:286-296, test_15_no_rearm_while_cooldown_active).
NeverExtended ==
  [][cooldown' > cooldown => ~CoolingDown]_authVars

\* A login is kept waiting only by a cooldown that was armed while it was
\* the installed one: a new login is tried at once, however the calls that
\* install it and those that report failures overlap (oauth.py:177-182).
NewLoginIsTried ==
  [][\A t \in Thread :
       pc[t] = "select" /\ token[t] \in Login /\ token'[t] = Fallback
         => armedOver = token[t]]_authVars
=============================================================================
