------------------------------ MODULE ApiLogin ------------------------------
(***************************************************************************)
(* Signing in to the API: the one-time code an e-mail address asks for,    *)
(* the attempts to enter it and the token it is exchanged for              *)
(* (app/auth.py), behind the rate limit of the two endpoints (app/api.py). *)
(*                                                                         *)
(* Codes and buckets live in the memory of the API process, the counters   *)
(* in Redis, tokens with the client; whom to let in, and as what, is read  *)
(* from the environment when the process starts.  There is one address and *)
(* one client.  An endpoint runs without suspension.  Times count down, or *)
(* are ages.                                                               *)
(***************************************************************************)
EXTENDS Integers, FiniteSets

CONSTANTS
  Codes,         \* the codes _generate_code draws from
  CodeTtl,       \* code_ttl_seconds
  MaxAttempts,   \* max_code_attempts
  TokenTtl,      \* token_ttl_seconds
  Window,        \* _RATE_LIMIT_WINDOW
  MaxRequests    \* _RATE_LIMIT_MAX, for each endpoint

Role == {"admin", "client"}
NotAllowed == "none"

\* The key_suffix of each endpoint's limit.
Endpoint == {"auth_code", "auth_login"}

ASSUME LoginAssumption ==
  /\ CodeTtl \in Nat /\ TokenTtl \in Nat /\ MaxAttempts \in Nat \ {0}
  /\ Window \in Nat \ {0} /\ MaxRequests \in [Endpoint -> Nat \ {0}]

VARIABLES
  allowed,  \* the role the configuration gives the address, or NotAllowed
  pending,  \* _pending_codes[email], or NoCode
  token,    \* the client's token, or NoToken
  limit     \* per endpoint: the counter in Redis, and the bucket in memory

\* History: the last code issued; the code in the mail that came with it, until
\* it is used or lost in a restart; the role the address had when it last logged in.
VARIABLES issue, mail, proof

history == <<issue, mail, proof>>
vars == <<allowed, pending, token, limit, history>>

NoCode == [none |-> "no code"]
NoToken == [none |-> "no token"]

\* left is the time to expires_at; it is passed when left is negative.
Pending == [code : Codes, left : -1 .. CodeTtl, attempts : 0 .. MaxAttempts, role : Role]
Token == [role : Role, left : -1 .. TokenTtl]

\* How many there are of each age below Window.
Ages == [0 .. Window - 1 -> Nat]

\* count and left of the key in Redis (it is absent at 0); the requests the
\* process admitted itself; and, as history, those Redis admitted.
Limiter == [count : Nat, left : 0 .. Window, bucket : Ages, counted : Ages]

None == [age \in 0 .. Window - 1 |-> 0]
Requests(ages) == UNION {{<<age, i>> : i \in 1 .. ages[age]} : age \in 0 .. Window - 1}
Total(ages) == Cardinality(Requests(ages))
One(ages) == [ages EXCEPT ![0] = @ + 1]
Older(ages) == [age \in 0 .. Window - 1 |-> IF age = 0 THEN 0 ELSE ages[age - 1]]

Init ==
  /\ allowed \in Role \cup {NotAllowed}
  /\ pending = NoCode /\ token = NoToken
  /\ limit = [e \in Endpoint |-> [count |-> 0, left |-> 0, bucket |-> None, counted |-> None]]
  /\ issue = [age |-> 0, wrong |-> 0, logins |-> 0]
  /\ mail = NoCode /\ proof = NotAllowed

-----------------------------------------------------------------------------
(* _rate_limit.                                                            *)

WithKey(l, count, left) == [l EXCEPT !.count = count, !.left = left]

\* A count over the limit is just that.
CountUp(e) ==
  IF limit[e].count > MaxRequests[e] THEN limit[e].count ELSE limit[e].count + 1

\* Mutant: every request renews the time to live.
IncrRenews(e) == WithKey(limit[e], CountUp(e), Window)

\* The pipeline: INCR, and EXPIRE for a key without a time to live.
Incr(e) ==
  WithKey(limit[e], CountUp(e), IF limit[e].left = 0 THEN Window ELSE limit[e].left)

\* Mutant: the count before this request is compared.
PassesLate(e) == limit[e].count <= MaxRequests[e]

\* Redis answers with a count within the limit.
PassesRedis(e) == Incr(e).count <= MaxRequests[e]
Counted(e) == [Incr(e) EXCEPT !.counted = One(@)]

\* In every other case the bucket decides: Redis does not answer, having
\* counted the request or not, or its count is too high and the 429 is caught.
Otherwise(e) == {limit[e], Incr(e)}
Room(e) == Total(limit[e].bucket) < MaxRequests[e]

Admitted(e) ==
  \/ PassesRedis(e) /\ limit' = [limit EXCEPT ![e] = Counted(e)]
  \/ Room(e) /\ \E l \in Otherwise(e) :
                  limit' = [limit EXCEPT ![e] = [l EXCEPT !.bucket = One(@)]]

TooManyRequests ==
  /\ \E e \in Endpoint : ~ Room(e) /\ \E l \in Otherwise(e) : limit' = [limit EXCEPT ![e] = l]
  /\ UNCHANGED <<allowed, pending, token, history>>

-----------------------------------------------------------------------------
(* /auth/request-code and /auth/login.                                     *)

\* _send_code_email: mail with the code goes out, or it cannot be sent.
Delivery(code) == {code, NoCode}

\* Mutant: wrong attempts at the code before count against the new one.
AttemptsKept(code) ==
  [code |-> code, left |-> CodeTtl, role |-> allowed,
   attempts |-> IF pending = NoCode THEN 0 ELSE pending.attempts]

NewCode(code) == [code |-> code, left |-> CodeTtl, attempts |-> 0, role |-> allowed]

\* The code before is gone, whether or not mail with the new one goes out.
IssueCode ==
  \E code \in Codes :
    /\ pending' = NewCode(code)
    /\ issue' = [age |-> 0, wrong |-> 0, logins |-> 0]
    /\ mail' \in Delivery(code)

\* request_code: nothing happens for an address that is not allowed.  The code
\* is stored under the address in lower case.  A client that pads the address
\* with blanks has a code under each such key; this is one key.
RequestCode ==
  /\ Admitted("auth_code")
  /\ IF allowed \in Role THEN IssueCode ELSE UNCHANGED <<pending, issue, mail>>
  /\ UNCHANGED <<allowed, token, proof>>

\* Mutant: the attempts are not limited.
Expired(record) == record.left < 0

\* _verify_pending_code: expired, or no attempt is left.
Dead(record) == record.left < 0 \/ record.attempts >= MaxAttempts

Refuse == UNCHANGED <<token, proof>>

LoginDead ==
  /\ pending # NoCode /\ Dead(pending)
  /\ pending' = NoCode /\ Refuse /\ UNCHANGED <<issue, mail>>

LoginWrong(code) ==
  /\ pending # NoCode /\ ~ Dead(pending) /\ code # pending.code
  /\ pending' = [pending EXCEPT !.attempts = @ + 1]
  /\ issue' = [issue EXCEPT !.wrong = @ + 1]
  /\ UNCHANGED mail /\ Refuse

\* Mutant: the code is not used up.
LoginNoPop(code) ==
  /\ pending # NoCode /\ ~ Dead(pending) /\ code = pending.code
  /\ pending' = pending
  /\ token' = [role |-> pending.role, left |-> TokenTtl]
  /\ proof' = allowed
  /\ issue' = [issue EXCEPT !.logins = @ + 1]
  /\ mail' = NoCode

\* The code is used up, and the token carries the role it was issued for.
LoginRight(code) ==
  /\ pending # NoCode /\ ~ Dead(pending) /\ code = pending.code
  /\ pending' = NoCode
  /\ token' = [role |-> pending.role, left |-> TokenTtl]
  /\ proof' = allowed
  /\ issue' = [issue EXCEPT !.logins = @ + 1]
  /\ mail' = NoCode

\* The address as it is typed is looked up: in another spelling than
\* request_code stored, it has no code.
NothingPending(spelling) ==
  /\ pending = NoCode \/ spelling = "other"
  /\ Refuse /\ UNCHANGED <<pending, issue, mail>>

Login ==
  /\ Admitted("auth_login")
  /\ \E code \in Codes, spelling \in {"stored", "other"} :
       \/ NothingPending(spelling)
       \/ spelling = "stored" /\ (LoginDead \/ LoginWrong(code) \/ LoginRight(code))
  /\ UNCHANGED allowed

-----------------------------------------------------------------------------
(* Requests with the token.                                                *)

\* Mutant: the role of the token is not compared with today's.
SignedAndFresh(t) == t # NoToken /\ t.left >= 0

\* verify_token: signed here, not expired, and for the role of today.
Valid(t) == t # NoToken /\ t.left >= 0 /\ t.role = allowed

\* The cookie is cleared.
Logout ==
  /\ token' = NoToken
  /\ UNCHANGED <<allowed, pending, limit, history>>

-----------------------------------------------------------------------------
(* Time and restarts.                                                      *)

Less(n) == IF n < 0 THEN n ELSE n - 1

\* The key expires.
KeyAged(l) == IF l.left <= 1 THEN WithKey(l, 0, 0) ELSE WithKey(l, l.count, l.left - 1)
Aged(l) == [KeyAged(l) EXCEPT !.bucket = Older(@), !.counted = Older(@)]

\* Beyond the time to live an age is just "over".
OneOlder(age) == IF age > CodeTtl THEN age ELSE age + 1

Tick ==
  /\ limit' = [e \in Endpoint |-> Aged(limit[e])]
  /\ pending' = IF pending = NoCode THEN pending ELSE [pending EXCEPT !.left = Less(@)]
  /\ token' = IF token = NoToken THEN token ELSE [token EXCEPT !.left = Less(@)]
  /\ issue' = [issue EXCEPT !.age = OneOlder(@)]
  /\ UNCHANGED <<allowed, mail, proof>>

\* Codes and buckets are gone, tokens are not; the lists may have changed.
ApiRestarts ==
  /\ allowed' \in Role \cup {NotAllowed}
  /\ pending' = NoCode
  /\ limit' = [e \in Endpoint |-> [limit[e] EXCEPT !.bucket = None]]
  /\ mail' = NoCode
  /\ UNCHANGED <<token, issue, proof>>

RedisRestarts ==
  /\ limit' = [e \in Endpoint |-> [WithKey(limit[e], 0, 0) EXCEPT !.counted = None]]
  /\ UNCHANGED <<allowed, pending, token, history>>

Next ==
  \/ RequestCode \/ Login \/ TooManyRequests \/ Logout
  \/ Tick \/ ApiRestarts \/ RedisRestarts

Spec == Init /\ [][Next]_vars

\* Time goes on, whatever the client does.
FairSpec == Spec /\ WF_vars(Tick)

-----------------------------------------------------------------------------
(* Properties.                                                             *)

TypeOK ==
  /\ allowed \in Role \cup {NotAllowed}
  /\ pending \in Pending \cup {NoCode}
  /\ token \in Token \cup {NoToken}
  /\ mail \in Codes \cup {NoCode} /\ proof \in Role \cup {NotAllowed}
  /\ issue \in [age : 0 .. CodeTtl + 1, wrong : 0 .. MaxAttempts, logins : Nat]
  /\ limit \in [Endpoint -> Limiter]
  /\ \A e \in Endpoint : limit[e].count <= MaxRequests[e] + 1

\* A code opens one session at most, in its time and before the attempts at
\* it are used up, whatever was requested, entered or restarted since.
CodeOpensOnce ==
  [][issue'.logins > issue.logins =>
       issue.logins = 0 /\ issue.age <= CodeTtl /\ issue.wrong < MaxAttempts]_vars

\* The code in the newest mail can be used by whoever enters it with the
\* address as request_code stored it (in another spelling it is refused),
\* unless it is too old, has been tried too often or used, mail with a newer
\* one failed, or the API was restarted.
NewestMailWorks ==
  mail # NoCode /\ issue.age <= CodeTtl /\ issue.wrong < MaxAttempts
    => pending # NoCode /\ ~ Dead(pending) /\ pending.code = mail

\* A token is good for the role the address had when it logged in, while that
\* is its role, across changes of the lists.
SessionAsProven ==
  Valid(token) => token.role = proof /\ allowed = proof

\* Any Window sees no more than this many requests of an endpoint, while
\* neither process is restarted: two windows of Redis overlap it, and the
\* bucket takes what Redis turns away.
AdmittedInWindow ==
  \A e \in Endpoint : Total(limit[e].bucket) + Total(limit[e].counted) < 3 * MaxRequests[e]

\* A client that keeps asking is not shut out: Redis lets it in again.
LimitOpens == \A e \in Endpoint : []<>PassesRedis(e)
=============================================================================
