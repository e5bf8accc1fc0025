--------------------------- MODULE ApiLoginProofs ---------------------------
(***************************************************************************)
(* Proofs about ApiLogin, for any codes, times and limits: types, the      *)
(* three properties of codes and tokens, and the requests let in during    *)
(* one window.                                                             *)
(***************************************************************************)
EXTENDS ApiLogin, Counting, FiniteSetTheorems, TLAPS

-----------------------------------------------------------------------------
(* The rate limit.                                                         *)

LEMMA AgesTypes ==
  /\ None \in Ages
  /\ \A ages \in Ages : One(ages) \in Ages /\ Older(ages) \in Ages
  <1>1. None \in Ages
    BY DEF None, Ages
  <1>2. ASSUME NEW ages \in Ages
        PROVE  One(ages) \in Ages /\ Older(ages) \in Ages
    <2>1. \A age \in 0 .. Window - 1 : ages[age] \in Nat
      BY DEF Ages
    <2>2. One(ages) \in Ages
      BY <2>1, LoginAssumption DEF One, Ages
    <2>3. \A age \in 0 .. Window - 1 : age # 0 => age - 1 \in 0 .. Window - 1
      BY LoginAssumption
    <2>4. Older(ages) \in Ages
      BY <2>1, <2>3, LoginAssumption DEF Older, Ages
    <2> QED BY <2>2, <2>4
  <1> QED BY <1>1, <1>2

LimitOK == /\ limit \in [Endpoint -> Limiter]
           /\ \A e \in Endpoint : limit[e].count <= MaxRequests[e] + 1

LEMMA LimiterUpdates ==
  /\ \A l \in Limiter, c \in Nat, left \in 0 .. Window :
       WithKey(l, c, left) \in Limiter /\ WithKey(l, c, left).count = c
  /\ \A l \in Limiter, b \in Ages : /\ [l EXCEPT !.bucket = b] \in Limiter
                                    /\ [l EXCEPT !.bucket = b].count = l.count
  /\ \A l \in Limiter, k \in Ages : /\ [l EXCEPT !.counted = k] \in Limiter
                                    /\ [l EXCEPT !.counted = k].count = l.count
  BY DEF Limiter, WithKey

LEMMA FieldTypes ==
  ASSUME LimitOK, NEW e \in Endpoint
  PROVE  /\ limit[e] \in Limiter /\ MaxRequests[e] \in Nat
         /\ limit[e].count \in Nat /\ limit[e].count <= MaxRequests[e] + 1
         /\ limit[e].left \in 0 .. Window
         /\ limit[e].bucket \in Ages /\ limit[e].counted \in Ages
  BY LoginAssumption DEF LimitOK, Limiter

LEMMA IncrTypes ==
  ASSUME LimitOK, NEW e \in Endpoint
  PROVE  Incr(e) \in Limiter /\ Incr(e).count <= MaxRequests[e] + 1
  <1> DEFINE left == IF limit[e].left = 0 THEN Window ELSE limit[e].left
  <1>1. CountUp(e) \in Nat /\ CountUp(e) <= MaxRequests[e] + 1 /\ left \in 0 .. Window
    BY FieldTypes, LoginAssumption DEF CountUp
  <1>2. Incr(e) = WithKey(limit[e], CountUp(e), left)
    BY DEF Incr
  <1> HIDE DEF left
  <1> QED BY <1>1, <1>2, FieldTypes, LimiterUpdates

\* One more request of an endpoint, admitted or not.
LEMMA LimitUpdate ==
  ASSUME LimitOK, NEW e \in Endpoint, NEW l \in Limiter, l.count <= MaxRequests[e] + 1,
         limit' = [limit EXCEPT ![e] = l]
  PROVE  LimitOK'
  BY DEF LimitOK

LEMMA AdmittedTypes ==
  ASSUME LimitOK, NEW e \in Endpoint, Admitted(e)
  PROVE  LimitOK'
  <1>1. \A l \in Limiter : /\ [l EXCEPT !.bucket = One(@)] \in Limiter
                           /\ [l EXCEPT !.counted = One(@)] \in Limiter
                           /\ [l EXCEPT !.bucket = One(@)].count = l.count
                           /\ [l EXCEPT !.counted = One(@)].count = l.count
    BY AgesTypes DEF Limiter
  <1>2. \A l \in Otherwise(e) : l \in Limiter /\ l.count <= MaxRequests[e] + 1
    BY IncrTypes DEF Otherwise, LimitOK
  <1>3. CASE limit' = [limit EXCEPT ![e] = Counted(e)]
    <2>1. Counted(e) \in Limiter /\ Counted(e).count <= MaxRequests[e] + 1
      BY <1>1, IncrTypes DEF Counted
    <2> QED BY <1>3, <2>1, LimitUpdate
  <1>4. ASSUME NEW l \in Otherwise(e), limit' = [limit EXCEPT ![e] = [l EXCEPT !.bucket = One(@)]]
        PROVE  LimitOK'
    <2>1. [l EXCEPT !.bucket = One(@)] \in Limiter
          /\ [l EXCEPT !.bucket = One(@)].count <= MaxRequests[e] + 1
      BY <1>1, <1>2
    <2> QED BY <1>4, <2>1, LimitUpdate
  <1> QED BY <1>3, <1>4 DEF Admitted

LEMMA RefusedTypes ==
  ASSUME LimitOK, TooManyRequests
  PROVE  LimitOK'
  <1>1. PICK e \in Endpoint : \E l \in Otherwise(e) : limit' = [limit EXCEPT ![e] = l]
    BY DEF TooManyRequests
  <1>2. PICK l \in Otherwise(e) : limit' = [limit EXCEPT ![e] = l]
    BY <1>1
  <1>3. l \in Limiter /\ l.count <= MaxRequests[e] + 1
    BY IncrTypes DEF Otherwise, LimitOK
  <1> QED BY <1>2, <1>3, LimitUpdate

LEMMA AgedTypes ==
  ASSUME LimitOK, limit' = [e \in Endpoint |-> Aged(limit[e])]
  PROVE  LimitOK'
  <1>1. \A l \in Limiter, b \in Ages, k \in Ages :
          /\ [l EXCEPT !.bucket = b, !.counted = k] \in Limiter
          /\ [l EXCEPT !.bucket = b, !.counted = k].count = l.count
    BY DEF Limiter
  <1>2. ASSUME NEW e \in Endpoint
        PROVE  Aged(limit[e]) \in Limiter /\ Aged(limit[e]).count <= MaxRequests[e] + 1
    <2>1. limit[e].left > 1 => limit[e].left - 1 \in 0 .. Window
      BY FieldTypes, LoginAssumption
    <2>2. KeyAged(limit[e]) \in Limiter /\ KeyAged(limit[e]).count \in {0, limit[e].count}
      <3>1. limit[e].left <= 1 => KeyAged(limit[e]) = WithKey(limit[e], 0, 0)
        BY DEF KeyAged
      <3>2. ~ (limit[e].left <= 1)
              => KeyAged(limit[e]) = WithKey(limit[e], limit[e].count, limit[e].left - 1)
        BY DEF KeyAged
      <3>3. 0 \in Nat /\ 0 \in 0 .. Window
        BY LoginAssumption
      <3>4. CASE limit[e].left <= 1
        BY <3>1, <3>3, <3>4, FieldTypes, LimiterUpdates
      <3>5. CASE ~ (limit[e].left <= 1)
        <4>1. limit[e].left - 1 \in 0 .. Window
          BY <2>1, <3>5, FieldTypes
        <4> QED BY <3>2, <3>5, <4>1, FieldTypes, LimiterUpdates
      <3> QED BY <3>4, <3>5
    <2>3. PICK b \in Ages, k \in Ages :
            Aged(limit[e]) = [KeyAged(limit[e]) EXCEPT !.bucket = b, !.counted = k]
      <3>1. KeyAged(limit[e]).bucket \in Ages /\ KeyAged(limit[e]).counted \in Ages
        BY <2>2 DEF Limiter
      <3> QED BY <3>1, AgesTypes DEF Aged
    <2>4. Aged(limit[e]) \in Limiter /\ Aged(limit[e]).count = KeyAged(limit[e]).count
      <3> DEFINE l == KeyAged(limit[e])
      <3>2. /\ [l EXCEPT !.bucket = b, !.counted = k] \in Limiter
            /\ [l EXCEPT !.bucket = b, !.counted = k].count = l.count
        BY <1>1, <2>2
      <3> QED BY <2>3, <3>2
    <2> QED BY <2>2, <2>4, FieldTypes
  <1> QED BY <1>2 DEF LimitOK

LEMMA RestartTypes ==
  ASSUME LimitOK,
         \/ limit' = [e \in Endpoint |-> [limit[e] EXCEPT !.bucket = None]]
         \/ limit' = [e \in Endpoint |-> [WithKey(limit[e], 0, 0) EXCEPT !.counted = None]]
  PROVE  LimitOK'
  <1>1. CASE limit' = [e \in Endpoint |-> [limit[e] EXCEPT !.bucket = None]]
    BY <1>1, AgesTypes, LimiterUpdates DEF LimitOK
  <1>2. CASE limit' = [e \in Endpoint |-> [WithKey(limit[e], 0, 0) EXCEPT !.counted = None]]
    <2>1. ASSUME NEW e \in Endpoint
          PROVE  /\ WithKey(limit[e], 0, 0) \in Limiter
                 /\ WithKey(limit[e], 0, 0).count <= MaxRequests[e] + 1
      <3>1. 0 \in Nat /\ 0 \in 0 .. Window
        BY LoginAssumption
      <3>2. WithKey(limit[e], 0, 0) \in Limiter /\ WithKey(limit[e], 0, 0).count = 0
        BY <3>1, FieldTypes, LimiterUpdates
      <3> QED BY <3>2, FieldTypes
    <2> QED BY <1>2, <2>1, AgesTypes, LimiterUpdates DEF LimitOK
  <1> QED BY <1>1, <1>2

-----------------------------------------------------------------------------
(* Types.                                                                  *)

LEMMA Numbers ==
  /\ \A n \in -1 .. CodeTtl : Less(n) \in -1 .. CodeTtl
  /\ \A n \in -1 .. TokenTtl : Less(n) \in -1 .. TokenTtl
  /\ \A n \in 0 .. CodeTtl + 1 : OneOlder(n) \in 0 .. CodeTtl + 1
  BY LoginAssumption DEF Less, OneOlder

LEMMA LimitKept == ASSUME LimitOK, UNCHANGED limit PROVE LimitOK'
  BY DEF LimitOK

\* A code that is pending is as old, has been tried as often and was issued
\* for the same role as the history says, and has opened nothing.
CodeKept ==
  pending # NoCode =>
    /\ pending.attempts = issue.wrong /\ issue.logins = 0 /\ pending.role = allowed
    /\ pending.left = IF issue.age > CodeTtl THEN -1 ELSE CodeTtl - issue.age

\* The code in the mail is pending until it is too old or was tried too often.
MailPending ==
  mail # NoCode /\ issue.age <= CodeTtl /\ issue.wrong < MaxAttempts
    => pending # NoCode /\ pending.code = mail

RoleProven == token # NoToken => token.role = proof

LoginInv == CodeKept /\ MailPending /\ RoleProven

Inv == TypeOK /\ LoginInv

LEMMA NoneApart == NoCode \notin Pending /\ NoToken \notin Token
  BY DEF NoCode, NoToken, Pending, Token

\* A request for a code replaces code and history together.
LEMMA RequestKeeps ==
  ASSUME Inv, RequestCode
  PROVE  Inv'
  <1>1. LimitOK' /\ UNCHANGED <<allowed, token, proof>>
    BY AdmittedTypes DEF Inv, TypeOK, RequestCode, LimitOK, Endpoint
  <1>2. CASE UNCHANGED <<pending, issue, mail>>
    BY <1>1, <1>2 DEF Inv, TypeOK, LimitOK, LoginInv, CodeKept, MailPending, RoleProven
  <1>3. CASE allowed \in Role /\ IssueCode
    <2>1. PICK code \in Codes : /\ pending' = NewCode(code)
                                /\ issue' = [age |-> 0, wrong |-> 0, logins |-> 0]
                                /\ mail' \in Delivery(code)
      BY <1>3 DEF IssueCode
    <2>2. pending' \in Pending
      BY <1>3, <2>1, LoginAssumption DEF NewCode, Pending
    <2>3. issue' \in [age : 0 .. CodeTtl + 1, wrong : 0 .. MaxAttempts, logins : Nat]
      BY <2>1, LoginAssumption
    <2>4. TypeOK'
      BY <1>1, <2>1, <2>2, <2>3 DEF Inv, TypeOK, LimitOK, Delivery
    <2>5. CodeKept' /\ MailPending'
      BY <1>1, <2>1, <2>2, NoneApart, LoginAssumption
         DEF CodeKept, MailPending, NewCode, Delivery
    <2>6. RoleProven'
      BY <1>1 DEF Inv, LoginInv, RoleProven
    <2> QED BY <2>4, <2>5, <2>6 DEF Inv, LoginInv
  <1> QED BY <1>2, <1>3 DEF RequestCode

\* A wrong code is counted in the record and in the history.
LEMMA WrongKeeps ==
  ASSUME Inv, LimitOK', UNCHANGED allowed, NEW code \in Codes, LoginWrong(code)
  PROVE  Inv'
  <1>1. /\ pending \in Pending /\ pending.attempts < MaxAttempts
        /\ pending.attempts = issue.wrong
        /\ issue \in [age : 0 .. CodeTtl + 1, wrong : 0 .. MaxAttempts, logins : Nat]
    BY LoginAssumption DEF Inv, TypeOK, LoginInv, CodeKept, LoginWrong, Dead, Pending
  <1>2. /\ pending' \in Pending /\ pending'.attempts = pending.attempts + 1
        /\ pending'.code = pending.code /\ pending'.role = pending.role
        /\ pending'.left = pending.left
    BY <1>1, LoginAssumption DEF LoginWrong, Pending
  <1>3. /\ issue' \in [age : 0 .. CodeTtl + 1, wrong : 0 .. MaxAttempts, logins : Nat]
        /\ issue'.wrong = issue.wrong + 1
        /\ issue'.age = issue.age /\ issue'.logins = issue.logins
    BY <1>1, LoginAssumption DEF LoginWrong
  <1>4. TypeOK'
    BY <1>2, <1>3 DEF Inv, TypeOK, LimitOK, LoginWrong, Refuse
  <1>5. CodeKept'
    BY <1>1, <1>2, <1>3 DEF Inv, LoginInv, CodeKept, LoginWrong
  <1>6. MailPending'
    BY <1>1, <1>2, <1>3, NoneApart, LoginAssumption DEF Inv, LoginInv, MailPending, LoginWrong
  <1>7. RoleProven'
    BY DEF Inv, LoginInv, RoleProven, LoginWrong, Refuse
  <1> QED BY <1>4, <1>5, <1>6, <1>7 DEF Inv, LoginInv

\* The right one is used up for a token.
LEMMA RightKeeps ==
  ASSUME Inv, LimitOK', UNCHANGED allowed, NEW code \in Codes, LoginRight(code)
  PROVE  Inv'
  <1>1. /\ pending \in Pending /\ pending.role = allowed
        /\ issue \in [age : 0 .. CodeTtl + 1, wrong : 0 .. MaxAttempts, logins : Nat]
    BY DEF Inv, TypeOK, LoginInv, CodeKept, LoginRight
  <1>2. token' \in Token /\ token'.role = proof' /\ proof' \in Role
    BY <1>1, LoginAssumption DEF LoginRight, Token, Pending
  <1>3. issue' \in [age : 0 .. CodeTtl + 1, wrong : 0 .. MaxAttempts, logins : Nat]
    BY <1>1 DEF LoginRight
  <1>4. TypeOK'
    BY <1>2, <1>3 DEF Inv, TypeOK, LimitOK, LoginRight
  <1>5. LoginInv'
    BY <1>2 DEF LoginInv, CodeKept, MailPending, RoleProven, LoginRight
  <1> QED BY <1>4, <1>5 DEF Inv

\* A code is given up only when it is too old or was tried too often.
LEMMA DeadKeeps ==
  ASSUME Inv, LimitOK', UNCHANGED allowed, LoginDead
  PROVE  Inv'
  <1>1. /\ pending \in Pending /\ (pending.left < 0 \/ pending.attempts >= MaxAttempts)
        /\ issue \in [age : 0 .. CodeTtl + 1, wrong : 0 .. MaxAttempts, logins : Nat]
    BY DEF Inv, TypeOK, LoginDead, Dead
  <1>2. issue.age > CodeTtl \/ issue.wrong >= MaxAttempts
    BY <1>1, LoginAssumption DEF Inv, LoginInv, CodeKept, LoginDead
  <1>3. TypeOK'
    BY DEF Inv, TypeOK, LimitOK, LoginDead, Refuse
  <1>4. LoginInv'
    BY <1>1, <1>2, LoginAssumption
       DEF Inv, LoginInv, CodeKept, MailPending, RoleProven, LoginDead, Refuse
  <1> QED BY <1>3, <1>4 DEF Inv

LEMMA LoginKeeps ==
  ASSUME Inv, Login
  PROVE  Inv'
  <1>1. LimitOK' /\ UNCHANGED allowed
    BY AdmittedTypes DEF Inv, TypeOK, Login, LimitOK, Endpoint
  <1>2. ASSUME NEW spelling \in {"stored", "other"}, NothingPending(spelling)
        PROVE  Inv'
    BY <1>1, <1>2 DEF Inv, TypeOK, LimitOK, LoginInv, CodeKept, MailPending, RoleProven,
                      NothingPending, Refuse
  <1> QED BY <1>1, <1>2, DeadKeeps, WrongKeeps, RightKeeps DEF Login

\* Time takes what is left from the record and adds to its age alike.
LEMMA TickKeeps ==
  ASSUME Inv, Tick
  PROVE  Inv'
  <1>1. LimitOK'
    BY AgedTypes DEF Inv, TypeOK, LimitOK, Tick
  <1>2. issue \in [age : 0 .. CodeTtl + 1, wrong : 0 .. MaxAttempts, logins : Nat]
    BY DEF Inv, TypeOK
  <1>3. /\ issue' \in [age : 0 .. CodeTtl + 1, wrong : 0 .. MaxAttempts, logins : Nat]
        /\ issue'.age = OneOlder(issue.age)
        /\ issue'.wrong = issue.wrong /\ issue'.logins = issue.logins
    BY <1>2, Numbers DEF Tick
  <1>4. /\ pending = NoCode => pending' = NoCode
        /\ pending # NoCode =>
             /\ pending' \in Pending /\ pending'.left = Less(pending.left)
             /\ pending'.code = pending.code /\ pending'.role = pending.role
             /\ pending'.attempts = pending.attempts
    BY Numbers DEF Inv, TypeOK, Tick, Pending
  <1>5. /\ token = NoToken => token' = NoToken
        /\ token # NoToken => token' \in Token /\ token'.role = token.role
    BY Numbers DEF Inv, TypeOK, Tick, Token
  <1>6. TypeOK'
    BY <1>1, <1>3, <1>4, <1>5 DEF Inv, TypeOK, LimitOK, Tick
  <1>7. CodeKept'
    BY <1>2, <1>3, <1>4, LoginAssumption DEF Inv, LoginInv, CodeKept, Less, OneOlder, Tick
  <1>8. MailPending'
    BY <1>2, <1>3, <1>4, NoneApart, LoginAssumption
       DEF Inv, LoginInv, MailPending, OneOlder, Tick
  <1>9. RoleProven'
    BY <1>5 DEF Inv, LoginInv, RoleProven, Tick
  <1> QED BY <1>6, <1>7, <1>8, <1>9 DEF Inv, LoginInv

LEMMA NextKeeps ==
  ASSUME Inv, [Next]_vars
  PROVE  Inv'
  <1>1. CASE TooManyRequests
    <2>1. LimitOK'
      BY <1>1, RefusedTypes DEF Inv, TypeOK, LimitOK
    <2> QED BY <1>1, <2>1 DEF Inv, TypeOK, LimitOK, LoginInv, CodeKept, MailPending,
                               RoleProven, TooManyRequests, history
  <1>2. CASE Logout
    BY <1>2 DEF Inv, TypeOK, LoginInv, CodeKept, MailPending, RoleProven, Logout, history
  <1>3. CASE ApiRestarts
    <2>1. LimitOK'
      BY <1>3, RestartTypes DEF Inv, TypeOK, LimitOK, ApiRestarts
    <2> QED BY <1>3, <2>1 DEF Inv, TypeOK, LimitOK, LoginInv, CodeKept, MailPending,
                               RoleProven, ApiRestarts
  <1>4. CASE RedisRestarts
    <2>1. LimitOK'
      BY <1>4, RestartTypes DEF Inv, TypeOK, LimitOK, RedisRestarts
    <2> QED BY <1>4, <2>1 DEF Inv, TypeOK, LimitOK, LoginInv, CodeKept, MailPending,
                               RoleProven, RedisRestarts, history
  <1>5. CASE UNCHANGED vars
    BY <1>5 DEF Inv, TypeOK, LoginInv, CodeKept, MailPending, RoleProven, vars, history
  <1> QED BY <1>1, <1>2, <1>3, <1>4, <1>5, RequestKeeps, LoginKeeps, TickKeeps DEF Next

LEMMA InitHolds == ASSUME Init PROVE Inv
  <1>1. [e \in Endpoint |-> [count |-> 0, left |-> 0, bucket |-> None, counted |-> None]]
          \in [Endpoint -> Limiter]
    BY AgesTypes, LoginAssumption DEF Limiter
  <1>2. \A e \in Endpoint : limit[e].count <= MaxRequests[e] + 1
    BY LoginAssumption DEF Init
  <1>3. TypeOK
    BY <1>1, <1>2, LoginAssumption DEF Init, TypeOK
  <1> QED BY <1>3 DEF Init, Inv, LoginInv, CodeKept, MailPending, RoleProven

LEMMA InvHolds == Spec => []Inv
  BY InitHolds, NextKeeps, PTL DEF Spec

-----------------------------------------------------------------------------
(* The properties.                                                         *)

\* Every reachable state is well typed: no code is tried more than
\* MaxAttempts times, and no counter in Redis runs past one over its limit.
THEOREM TypeCorrect == Spec => []TypeOK
  BY InvHolds, PTL DEF Inv

\* The code in the newest mail stays good, whatever else is requested, tried
\* or refused meanwhile.
THEOREM NewestMailWorksHolds == Spec => []NewestMailWorks
  <1>1. ASSUME Inv PROVE NewestMailWorks
    <2>1. ASSUME mail # NoCode, issue.age <= CodeTtl, issue.wrong < MaxAttempts
          PROVE  pending # NoCode /\ ~ Dead(pending) /\ pending.code = mail
      <3>1. pending # NoCode /\ pending.code = mail
        BY <1>1, <2>1 DEF Inv, LoginInv, MailPending
      <3>2. issue.age \in 0 .. CodeTtl + 1
        BY <1>1 DEF Inv, TypeOK
      <3>3. pending.left = CodeTtl - issue.age /\ pending.attempts = issue.wrong
        BY <1>1, <2>1, <3>1, <3>2, LoginAssumption DEF Inv, LoginInv, CodeKept
      <3>4. issue.wrong \in 0 .. MaxAttempts
        BY <1>1 DEF Inv, TypeOK
      <3> QED BY <2>1, <3>1, <3>2, <3>3, <3>4, LoginAssumption DEF Dead
    <2> QED BY <2>1 DEF NewestMailWorks
  <1> QED BY <1>1, InvHolds, PTL

\* A token that is valid is one the address proved itself for in the role it
\* has now, across changes of the lists.
THEOREM SessionAsProvenHolds == Spec => []SessionAsProven
  <1>1. ASSUME Inv PROVE SessionAsProven
    BY <1>1 DEF Inv, LoginInv, RoleProven, SessionAsProven, Valid
  <1> QED BY <1>1, InvHolds, PTL

\* A code opens one session at most, in its time and before its attempts are
\* used up.
THEOREM CodeOpensOnceHolds == Spec => CodeOpensOnce
  <1> DEFINE Once == issue'.logins > issue.logins =>
                       /\ issue.logins = 0 /\ issue.age <= CodeTtl
                       /\ issue.wrong < MaxAttempts
  <1>1. ASSUME Inv, Next, issue'.logins > issue.logins
        PROVE  \E code \in Codes : LoginRight(code)
    <2>1. issue \in [age : 0 .. CodeTtl + 1, wrong : 0 .. MaxAttempts, logins : Nat]
      BY <1>1 DEF Inv, TypeOK
    <2>2. ~ UNCHANGED issue
      BY <1>1, <2>1
    <2>3. ~ RequestCode
      BY <1>1, <2>1, <2>2 DEF RequestCode, IssueCode
    <2>4. ~ Tick
      BY <1>1, <2>1 DEF Tick
    <2>5. ~ (\E code \in Codes : LoginWrong(code))
      BY <1>1, <2>1 DEF LoginWrong
    <2>6. Login
      BY <1>1, <2>2, <2>3, <2>4
         DEF Next, TooManyRequests, Logout, ApiRestarts, RedisRestarts, history
    <2> QED BY <2>2, <2>5, <2>6 DEF Login, NothingPending, LoginDead
  <1>2. ASSUME Inv, NEW code \in Codes, LoginRight(code)
        PROVE  issue.logins = 0 /\ issue.age <= CodeTtl /\ issue.wrong < MaxAttempts
    <2>1. /\ pending # NoCode /\ pending \in Pending
          /\ ~ (pending.left < 0) /\ ~ (pending.attempts >= MaxAttempts)
      BY <1>2 DEF Inv, TypeOK, LoginRight, Dead
    <2>2. issue \in [age : 0 .. CodeTtl + 1, wrong : 0 .. MaxAttempts, logins : Nat]
      BY <1>2 DEF Inv, TypeOK
    <2> QED BY <1>2, <2>1, <2>2, LoginAssumption DEF Inv, LoginInv, CodeKept
  <1>3. ASSUME Inv, [Next]_vars PROVE [Once]_vars
    BY <1>1, <1>2, <1>3
  <1> QED BY <1>3, InvHolds, PTL DEF Spec, CodeOpensOnce
-----------------------------------------------------------------------------
(* Requests admitted in a window.                                          *)

\* The requests aged from lo up to hi.
Aging(ages, lo, hi) == {r \in Requests(ages) : lo <= r[1] /\ r[1] < hi}

LEMMA RequestsAre ==
  ASSUME NEW ages \in Ages, NEW r
  PROVE  r \in Requests(ages)
           <=> \E age \in 0 .. Window - 1 : \E i \in 1 .. ages[age] : r = <<age, i>>
  BY DEF Requests

LEMMA RequestFields ==
  ASSUME NEW ages \in Ages, NEW r \in Requests(ages)
  PROVE  /\ r = <<r[1], r[2]>> /\ r[1] \in 0 .. Window - 1 /\ r[2] \in 1 .. ages[r[1]]
         /\ r[1] \in Int /\ r[2] \in Int
  <1>1. PICK age \in 0 .. Window - 1 : \E i \in 1 .. ages[age] : r = <<age, i>>
    BY RequestsAre
  <1>2. ages[age] \in Nat
    BY DEF Ages
  <1> QED BY <1>1, <1>2, LoginAssumption

LEMMA RequestsFinite ==
  ASSUME NEW ages \in Ages
  PROVE  IsFiniteSet(Requests(ages))
  <1> DEFINE g == [age \in 0 .. Window - 1 |-> {<<age, i>> : i \in 1 .. ages[age]}]
             T == {g[age] : age \in 0 .. Window - 1}
  <1>1. ASSUME NEW age \in 0 .. Window - 1
        PROVE  IsFiniteSet(g[age])
    <2>1. ages[age] \in Int /\ 1 \in Int
      BY DEF Ages
    <2>2. IsFiniteSet({age}) /\ IsFiniteSet(1 .. ages[age])
      <3>1. IsFiniteSet({age})
        BY FS_Singleton
      <3>2. IsFiniteSet(1 .. ages[age])
        BY <2>1, FS_Interval
      <3> QED BY <3>1, <3>2
    <2>3. IsFiniteSet({age} \X (1 .. ages[age]))
      BY <2>2, FS_Product
    <2>4. g[age] \in SUBSET ({age} \X (1 .. ages[age]))
      OBVIOUS
    <2> HIDE DEF g
    <2> QED BY <2>3, <2>4, FS_Subset
  <1>2. IsFiniteSet(0 .. Window - 1)
    BY FS_Interval, LoginAssumption
  <1>3. g \in Surjection(0 .. Window - 1, T)
    BY DEF Surjection
  <1>4. Requests(ages) = UNION T
    BY DEF Requests
  <1> HIDE DEF g
  <1>5. \A t \in T : IsFiniteSet(t)
    BY <1>1
  <1> HIDE DEF T
  <1>6. IsFiniteSet(T)
    BY <1>2, <1>3, FS_Surjection
  <1> QED BY <1>4, <1>5, <1>6, FS_UNION

LEMMA AgingFinite ==
  ASSUME NEW ages \in Ages, NEW lo \in Int, NEW hi \in Int
  PROVE  /\ IsFiniteSet(Aging(ages, lo, hi)) /\ Cardinality(Aging(ages, lo, hi)) \in Nat
         /\ Total(ages) \in Nat /\ Cardinality(Aging(ages, lo, hi)) <= Total(ages)
  <1>1. Aging(ages, lo, hi) \in SUBSET Requests(ages)
    BY DEF Aging
  <1> QED BY <1>1, RequestsFinite, PartBound DEF Total

LEMMA NoneAdmitted ==
  /\ Total(None) = 0 /\ None[0] = 0
  /\ \A lo, hi \in Int : Cardinality(Aging(None, lo, hi)) = 0
  <1>1. Requests(None) = {}
    BY DEF Requests, None
  <1>2. \A lo, hi \in Int : Aging(None, lo, hi) = {}
    BY <1>1 DEF Aging
  <1>3. Cardinality({}) = 0
    BY FS_EmptySet
  <1>4. None[0] = 0
    BY LoginAssumption DEF None
  <1> HIDE DEF None
  <1> QED BY <1>1, <1>2, <1>3, <1>4 DEF Total

\* A new request is the youngest.
LEMMA OneAdmitted ==
  ASSUME NEW ages \in Ages
  PROVE  /\ Total(One(ages)) <= Total(ages) + 1
         /\ \A hi \in Int : Cardinality(Aging(One(ages), 0, hi))
                              <= Cardinality(Aging(ages, 0, hi)) + 1
         /\ \A lo, hi \in Int :
              lo > 0 \/ hi <= 0 => Aging(One(ages), lo, hi) = Aging(ages, lo, hi)
  <1> DEFINE new == <<0, ages[0] + 1>>
  <1>1. /\ One(ages) \in Ages /\ 0 \in 0 .. Window - 1 /\ ages[0] \in Nat
        /\ One(ages)[0] = ages[0] + 1
        /\ \A age \in 0 .. Window - 1 : age # 0 => One(ages)[age] = ages[age]
    BY AgesTypes, LoginAssumption DEF One, Ages
  <1>2. Requests(One(ages)) = Requests(ages) \cup {new}
    <2>1. ASSUME NEW r \in Requests(One(ages)) PROVE r \in Requests(ages) \cup {new}
      <3> PICK age \in 0 .. Window - 1 : \E i \in 1 .. One(ages)[age] : r = <<age, i>>
        BY <1>1, RequestsAre
      <3>1. PICK i \in 1 .. One(ages)[age] : r = <<age, i>>
        OBVIOUS
      <3>2. CASE age # 0
        BY <1>1, <3>1, <3>2, RequestsAre
      <3>3. CASE age = 0
        <4>1. i \in 1 .. ages[0] \/ i = ages[0] + 1
          BY <1>1, <3>3
        <4> QED BY <1>1, <3>1, <3>3, <4>1, RequestsAre
      <3> QED BY <3>2, <3>3
    <2>2. ASSUME NEW r \in Requests(ages) PROVE r \in Requests(One(ages))
      <3> PICK age \in 0 .. Window - 1 : \E i \in 1 .. ages[age] : r = <<age, i>>
        BY RequestsAre
      <3>1. PICK i \in 1 .. ages[age] : r = <<age, i>>
        OBVIOUS
      <3>2. i \in 1 .. One(ages)[age]
        BY <1>1, <3>1
      <3> QED BY <1>1, <3>1, <3>2, RequestsAre
    <2>3. new \in Requests(One(ages))
      <3>1. ages[0] + 1 \in 1 .. One(ages)[0]
        BY <1>1
      <3> QED BY <1>1, <3>1, RequestsAre
    <2> QED BY <2>1, <2>2, <2>3
  <1>3. new[1] = 0
    OBVIOUS
  <1> HIDE DEF new
  <1>4. Total(One(ages)) <= Total(ages) + 1
    BY <1>2, RequestsFinite, OneMoreBound DEF Total
  <1>5. ASSUME NEW hi \in Int
        PROVE  Cardinality(Aging(One(ages), 0, hi)) <= Cardinality(Aging(ages, 0, hi)) + 1
    <2>1. Aging(One(ages), 0, hi) \in SUBSET (Aging(ages, 0, hi) \cup {new})
      BY <1>2 DEF Aging
    <2> QED BY <2>1, AgingFinite, OneMoreBound
  <1>6. ASSUME NEW lo \in Int, NEW hi \in Int, lo > 0 \/ hi <= 0
        PROVE  Aging(One(ages), lo, hi) = Aging(ages, lo, hi)
    <2>1. ~ (lo <= new[1] /\ new[1] < hi)
      BY <1>3, <1>6
    <2> QED BY <1>2, <2>1 DEF Aging
  <1> QED BY <1>4, <1>5, <1>6

\* A tick makes every request older by one; those over age are forgotten.
LEMMA OlderAdmitted ==
  ASSUME NEW ages \in Ages
  PROVE  /\ Older(ages)[0] = 0
         /\ \A lo, hi \in Int : Cardinality(Aging(Older(ages), lo + 1, hi + 1))
                                  <= Cardinality(Aging(ages, lo, hi))
  <1>1. /\ Older(ages) \in Ages /\ 0 \in 0 .. Window - 1 /\ Older(ages)[0] = 0
        /\ \A age \in 0 .. Window - 1 :
             age # 0 => Older(ages)[age] = ages[age - 1] /\ age - 1 \in 0 .. Window - 1
    BY AgesTypes, LoginAssumption DEF Older
  <1>2. ASSUME NEW lo \in Int, NEW hi \in Int
        PROVE  Cardinality(Aging(Older(ages), lo + 1, hi + 1)) <= Cardinality(Aging(ages, lo, hi))
    <2> DEFINE L == Aging(Older(ages), lo + 1, hi + 1)
               S == Aging(ages, lo, hi)
               f == [r \in L |-> <<r[1] - 1, r[2]>>]
    <2>1. ASSUME NEW r \in L
          PROVE  <<r[1] - 1, r[2]>> \in S /\ r = <<r[1], r[2]>> /\ r[1] \in Int
      <3> PICK age \in 0 .. Window - 1 : \E i \in 1 .. Older(ages)[age] : r = <<age, i>>
        BY <1>1, RequestsAre DEF Aging
      <3>1. PICK i \in 1 .. Older(ages)[age] : r = <<age, i>> /\ lo + 1 <= age /\ age < hi + 1
        BY DEF Aging
      <3>2. age # 0
        BY <1>1, <3>1
      <3>3. age - 1 \in 0 .. Window - 1 /\ i \in 1 .. ages[age - 1]
        BY <1>1, <3>1, <3>2
      <3>4. <<age - 1, i>> \in Requests(ages)
        BY <3>3, RequestsAre
      <3>5. lo <= age - 1 /\ age - 1 < hi
        BY <3>1, LoginAssumption
      <3> QED BY <3>1, <3>4, <3>5, LoginAssumption DEF Aging
    <2>2. \A r, q \in L : f[r] = f[q] => r = q
      <3> TAKE r \in L, q \in L
      <3> HAVE f[r] = f[q]
      <3>1. r[1] - 1 = q[1] - 1 /\ r[2] = q[2]
        OBVIOUS
      <3>2. r[1] = q[1]
        BY <2>1, <3>1
      <3> QED BY <2>1, <3>1, <3>2
    <2>3. f \in [L -> S]
      BY <2>1
    <2>4. IsFiniteSet(L) /\ IsFiniteSet(S)
      BY <1>1, AgingFinite
    <2> HIDE DEF f, L, S
    <2>5. Cardinality(L) <= Cardinality(S)
      BY <2>2, <2>3, <2>4, InjectionBound
    <2> QED BY <2>5 DEF L, S
  <1> QED BY <1>1, <1>2

\* Every request is younger or not.
LEMMA AllAges ==
  ASSUME NEW ages \in Ages
  PROVE  /\ Total(ages) = Cardinality(Aging(ages, 0, Window))
         /\ \A mid \in Int : Total(ages) <= Cardinality(Aging(ages, 0, mid))
                                             + Cardinality(Aging(ages, mid, Window))
         /\ \A hi \in Int : Aging(ages, -1, hi) = Aging(ages, 0, hi)
  <1>1. \A r \in Requests(ages) : r[1] \in Int /\ 0 <= r[1] /\ r[1] < Window
    BY RequestFields, LoginAssumption
  <1>2. Aging(ages, 0, Window) = Requests(ages)
    BY <1>1 DEF Aging
  <1>3. \A hi \in Int : Aging(ages, -1, hi) = Aging(ages, 0, hi)
    BY <1>1 DEF Aging
  <1>4. ASSUME NEW mid \in Int
        PROVE  Total(ages) <= Cardinality(Aging(ages, 0, mid))
                               + Cardinality(Aging(ages, mid, Window))
    <2>1. Requests(ages) = Aging(ages, 0, mid) \cup Aging(ages, mid, Window)
      BY <1>1 DEF Aging
    <2>2. Window \in Int
      BY LoginAssumption
    <2> QED BY <2>1, <2>2, AgingFinite, UnionBound DEF Total
  <1> QED BY <1>2, <1>3, <1>4 DEF Total

\* Nothing has an age below zero, and of age zero is what was just let in.
LEMMA NewAges ==
  ASSUME NEW ages \in Ages
  PROVE  /\ Cardinality(Aging(ages, 0, 0)) = 0
         /\ ages[0] = 0 => Cardinality(Aging(ages, 0, 1)) = 0
  <1>1. Aging(ages, 0, 0) = {}
    BY RequestFields DEF Aging
  <1>2. ASSUME ages[0] = 0 PROVE Aging(ages, 0, 1) = {}
    <2>1. \A r \in Aging(ages, 0, 1) : FALSE
      <3> TAKE r \in Aging(ages, 0, 1)
      <3>1. r[1] = 0 /\ r[2] \in 1 .. ages[r[1]]
        BY RequestFields, LoginAssumption DEF Aging
      <3> QED BY <1>2, <3>1
    <2> QED BY <2>1
  <1> QED BY <1>1, <1>2, FS_EmptySet

Lower(m, n) == IF m < n THEN m ELSE n

\* The key of an endpoint was created Window - left ago.  Of the requests Redis
\* let in, those after its creation were counted by it, with the one that created
\* it; those before, by the key that expired, whose own first is over age.
WindowOf(l, max) ==
  /\ Total(l.bucket) <= max
  /\ l.left = 0 =>
       /\ l.count = 0 /\ l.counted[0] = 0
       /\ Total(l.counted) <= max - 1
  /\ l.left > 0 =>
       LET since == Window - l.left
       IN  /\ l.count >= 1
           /\ Cardinality(Aging(l.counted, 0, since + 1)) <= Lower(l.count, max)
           /\ Cardinality(Aging(l.counted, 0, since)) <= Lower(l.count, max) - 1
           /\ Cardinality(Aging(l.counted, since + 1, Window)) <= max - 1

WindowInv == \A e \in Endpoint : WindowOf(limit[e], MaxRequests[e])

LEMMA Lowers ==
  \A m, n \in Nat : /\ Lower(m, n) \in Nat /\ Lower(m, n) <= m /\ Lower(m, n) <= n
                    /\ \A k \in Nat : m <= k => Lower(m, n) <= Lower(k, n)
                    /\ m + 1 <= n => Lower(m, n) + 1 = Lower(m + 1, n)
  BY DEF Lower

LEMMA LimiterFields ==
  ASSUME NEW l \in Limiter
  PROVE  /\ l.count \in Nat /\ l.left \in 0 .. Window /\ l.left \in Int
         /\ l.bucket \in Ages /\ l.counted \in Ages
  BY LoginAssumption DEF Limiter

\* Redis counts a request, and lets it in or not.
LEMMA CountKeepsWindow ==
  ASSUME LimitOK, NEW e \in Endpoint, WindowOf(limit[e], MaxRequests[e])
  PROVE  /\ WindowOf(Incr(e), MaxRequests[e])
         /\ PassesRedis(e) => WindowOf(Counted(e), MaxRequests[e])
  <1> DEFINE max == MaxRequests[e]
             l == limit[e]
             m == Incr(e)
             left == IF l.left = 0 THEN Window ELSE l.left
             since == Window - left
  <1>1. /\ l \in Limiter /\ max \in Nat /\ max >= 1 /\ Window \in Nat /\ Window >= 1
        /\ l.count \in Nat /\ l.left \in 0 .. Window /\ l.counted \in Ages
    BY FieldTypes, LoginAssumption
  <1>2. /\ m.count = CountUp(e) /\ m.left = left
        /\ m.bucket = l.bucket /\ m.counted = l.counted
    BY <1>1 DEF Incr, WithKey, Limiter
  <1>3. /\ CountUp(e) \in Nat /\ CountUp(e) >= 1 /\ CountUp(e) >= l.count
        /\ l.count <= max => CountUp(e) = l.count + 1
        /\ CountUp(e) <= max => CountUp(e) = l.count + 1
    BY <1>1 DEF CountUp
  <1>4. left \in 1 .. Window /\ since \in Nat /\ since + 1 \in Nat /\ m.left # 0 /\ m.left > 0
    BY <1>1, <1>2
  <1>5. /\ Cardinality(Aging(l.counted, 0, since + 1)) <= Lower(m.count, max)
        /\ Cardinality(Aging(l.counted, 0, since)) <= Lower(m.count, max) - 1
        /\ Cardinality(Aging(l.counted, since + 1, Window)) <= max - 1
        /\ m.count <= max =>
             /\ Cardinality(Aging(l.counted, 0, since + 1)) + 1 <= Lower(m.count, max)
             /\ since # 0 => Cardinality(Aging(l.counted, 0, since)) + 1 <= Lower(m.count, max) - 1
    <2>1. CASE l.left = 0
      <3>1. since = 0 /\ l.counted[0] = 0 /\ Total(l.counted) <= max - 1
        BY <1>1, <2>1 DEF WindowOf
      <3>2. /\ Cardinality(Aging(l.counted, 0, 0)) = 0
            /\ Cardinality(Aging(l.counted, 0, 1)) = 0
        BY <1>1, <3>1, NewAges
      <3>3. /\ Cardinality(Aging(l.counted, 1, Window)) \in Nat /\ Total(l.counted) \in Nat
            /\ Cardinality(Aging(l.counted, 1, Window)) <= Total(l.counted)
        <4>1. 1 \in Int /\ Window \in Int /\ l.counted \in Ages
          BY <1>1
        <4> HIDE DEF l
        <4> QED BY <4>1, AgingFinite
      <3>4. Lower(m.count, max) >= 1
        BY <1>1, <1>2, <1>3 DEF Lower
      <3>5. Lower(m.count, max) \in Nat
        BY <1>1, <1>2, <1>3, Lowers
      <3>6. since + 1 = 1
        BY <3>1
      <3> HIDE DEF since, l, m, max
      <3> QED BY <1>1, <3>1, <3>2, <3>3, <3>4, <3>5, <3>6
    <2>2. CASE l.left # 0
      <3>1. /\ left = l.left /\ l.left > 0 /\ since = Window - l.left
        BY <1>1, <2>2
      <3>2. /\ Cardinality(Aging(l.counted, 0, since + 1)) <= Lower(l.count, max)
            /\ Cardinality(Aging(l.counted, 0, since)) <= Lower(l.count, max) - 1
            /\ Cardinality(Aging(l.counted, since + 1, Window)) <= max - 1
        BY <3>1 DEF WindowOf
      <3>3. /\ Lower(l.count, max) <= Lower(m.count, max)
            /\ Lower(l.count, max) \in Nat /\ Lower(m.count, max) \in Nat
            /\ m.count <= max => Lower(l.count, max) + 1 = Lower(m.count, max)
        BY <1>1, <1>2, <1>3 DEF Lower
      <3>4. /\ Cardinality(Aging(l.counted, 0, since + 1)) \in Nat
            /\ Cardinality(Aging(l.counted, 0, since)) \in Nat
        BY <1>1, <1>4, AgingFinite
      <3> HIDE DEF since, l, m, max
      <3> QED BY <3>2, <3>3, <3>4
    <2> QED BY <2>1, <2>2
  <1>6. Total(l.bucket) <= max
    BY DEF WindowOf
  <1>7. WindowOf(m, max)
    BY <1>2, <1>3, <1>4, <1>5, <1>6 DEF WindowOf
  <1>8. ASSUME PassesRedis(e)
        PROVE  WindowOf(Counted(e), max)
    <2> DEFINE k == One(l.counted)
    <2>1. /\ Counted(e).count = m.count /\ Counted(e).left = left
          /\ Counted(e).bucket = l.bucket /\ Counted(e).counted = k
      <3>1. m \in Limiter
        BY IncrTypes
      <3> QED BY <1>2, <3>1 DEF Counted, Limiter
    <2>2. m.count <= max
      BY <1>8 DEF PassesRedis
    <2>3. Cardinality(Aging(k, 0, since + 1)) <= Cardinality(Aging(l.counted, 0, since + 1)) + 1
      BY <1>1, <1>4, OneAdmitted
    <2>4. IF since = 0 THEN Aging(k, 0, since) = Aging(l.counted, 0, since)
          ELSE Cardinality(Aging(k, 0, since)) <= Cardinality(Aging(l.counted, 0, since)) + 1
      BY <1>1, <1>4, OneAdmitted
    <2>5. Aging(k, since + 1, Window) = Aging(l.counted, since + 1, Window)
      BY <1>1, <1>4, OneAdmitted
    <2>6. k \in Ages
      BY <1>1, AgesTypes
    <2>7. /\ Cardinality(Aging(k, 0, since + 1)) \in Nat /\ Cardinality(Aging(k, 0, since)) \in Nat
          /\ Cardinality(Aging(l.counted, 0, since + 1)) \in Nat
          /\ Cardinality(Aging(l.counted, 0, since)) \in Nat
          /\ Lower(m.count, max) \in Nat
      <3>1. 0 \in Int /\ since \in Int /\ since + 1 \in Int /\ l.counted \in Ages
        BY <1>1, <1>4
      <3>2. Lower(m.count, max) \in Nat
        BY <1>1, <1>2, <1>3, Lowers
      <3> HIDE DEF k, l, since
      <3> QED BY <2>6, <3>1, <3>2, AgingFinite
    <2> HIDE DEF k
    <2>8. /\ Cardinality(Aging(k, 0, since + 1)) <= Lower(m.count, max)
          /\ Cardinality(Aging(k, 0, since)) <= Lower(m.count, max) - 1
          /\ Cardinality(Aging(k, since + 1, Window)) <= max - 1
      <3> HIDE DEF since, l, m, max
      <3> QED BY <1>5, <2>2, <2>3, <2>4, <2>5, <2>7
    <2> QED BY <1>2, <1>3, <1>4, <1>6, <2>1, <2>8 DEF WindowOf
  <1> QED BY <1>7, <1>8

LEMMA BucketKeepsWindow ==
  ASSUME NEW max \in Nat, NEW l \in Limiter, WindowOf(l, max), Total(l.bucket) < max
  PROVE  WindowOf([l EXCEPT !.bucket = One(@)], max)
  <1> DEFINE m == [l EXCEPT !.bucket = One(@)]
  <1>1. /\ m.count = l.count /\ m.left = l.left /\ m.counted = l.counted
        /\ m.bucket = One(l.bucket)
    BY DEF Limiter
  <1>2. Total(m.bucket) <= max
    <2>1. Total(One(l.bucket)) <= Total(l.bucket) + 1
      BY LimiterFields, OneAdmitted
    <2>2. Total(l.bucket) \in Nat /\ Total(One(l.bucket)) \in Nat
      <3>1. l.bucket \in Ages /\ One(l.bucket) \in Ages
        BY LimiterFields, AgesTypes
      <3> QED BY <3>1, AgingFinite
    <2> QED BY <1>1, <2>1, <2>2
  <1> HIDE DEF m
  <1> QED BY <1>1, <1>2 DEF WindowOf

LEMMA AdmitKeepsWindow ==
  ASSUME LimitOK, WindowInv, NEW e \in Endpoint, Admitted(e)
  PROVE  WindowInv'
  <1>1. /\ WindowOf(limit[e], MaxRequests[e]) /\ MaxRequests[e] \in Nat
        /\ limit[e] \in Limiter /\ Incr(e) \in Limiter
    BY FieldTypes, IncrTypes DEF WindowInv
  <1>2. ASSUME NEW l, WindowOf(l, MaxRequests[e]), limit' = [limit EXCEPT ![e] = l]
        PROVE  WindowInv'
    BY <1>2 DEF WindowInv, LimitOK
  <1>3. CASE PassesRedis(e) /\ limit' = [limit EXCEPT ![e] = Counted(e)]
    BY <1>1, <1>2, <1>3, CountKeepsWindow
  <1>4. ASSUME Room(e), NEW l \in Otherwise(e),
               limit' = [limit EXCEPT ![e] = [l EXCEPT !.bucket = One(@)]]
        PROVE  WindowInv'
    <2>1. l \in Limiter /\ l.bucket = limit[e].bucket
      <3>1. Incr(e).bucket = limit[e].bucket
        BY <1>1 DEF Incr, WithKey, Limiter
      <3> QED BY <1>1, <1>4, <3>1 DEF Otherwise
    <2>2. WindowOf(l, MaxRequests[e]) /\ Total(l.bucket) < MaxRequests[e]
      BY <1>1, <1>4, <2>1, CountKeepsWindow DEF Otherwise, Room
    <2>3. WindowOf([l EXCEPT !.bucket = One(@)], MaxRequests[e])
      BY <1>1, <2>1, <2>2, BucketKeepsWindow
    <2> QED BY <1>2, <1>4, <2>3
  <1> QED BY <1>3, <1>4 DEF Admitted

LEMMA RefuseKeepsWindow ==
  ASSUME LimitOK, WindowInv, TooManyRequests
  PROVE  WindowInv'
  <1>1. PICK e \in Endpoint : \E l \in Otherwise(e) : limit' = [limit EXCEPT ![e] = l]
    BY DEF TooManyRequests
  <1>2. PICK l \in Otherwise(e) : limit' = [limit EXCEPT ![e] = l]
    BY <1>1
  <1>3. WindowOf(l, MaxRequests[e])
    BY CountKeepsWindow DEF Otherwise, WindowInv
  <1> QED BY <1>2, <1>3 DEF WindowInv, LimitOK

\* A key that expires leaves its requests but the first: that one is over age
\* by then.
LEMMA AgeKeepsWindow ==
  ASSUME NEW max \in Nat \ {0}, NEW l \in Limiter, WindowOf(l, max)
  PROVE  WindowOf(Aged(l), max)
  <1> DEFINE m == Aged(l)
             since == Window - l.left
  <1>1. /\ l.count \in Nat /\ l.left \in 0 .. Window /\ l.bucket \in Ages /\ l.counted \in Ages
        /\ Window \in Nat /\ Window >= 1 /\ since \in Nat /\ max \in Nat /\ max >= 1
    BY LimiterFields, LoginAssumption
  <1>2. /\ m.bucket = Older(l.bucket) /\ m.counted = Older(l.counted)
        /\ l.left <= 1 => m.left = 0 /\ m.count = 0
        /\ l.left > 1 => m.left = l.left - 1 /\ m.count = l.count
    <2>1. /\ KeyAged(l).bucket = l.bucket /\ KeyAged(l).counted = l.counted
          /\ l.left <= 1 => KeyAged(l).left = 0 /\ KeyAged(l).count = 0
          /\ l.left > 1 => KeyAged(l).left = l.left - 1 /\ KeyAged(l).count = l.count
      BY <1>1 DEF KeyAged, WithKey, Limiter
    <2>2. \E c, x, b, k : KeyAged(l) = [count |-> c, left |-> x, bucket |-> b, counted |-> k]
      BY DEF KeyAged, WithKey, Limiter
    <2> QED BY <2>1, <2>2 DEF Aged
  <1> HIDE DEF m
  <1>3. ASSUME NEW ages \in Ages, NEW hi \in Int
        PROVE  /\ Older(ages) \in Ages
               /\ Cardinality(Aging(Older(ages), 0, hi + 1)) <= Cardinality(Aging(ages, 0, hi))
               /\ Cardinality(Aging(Older(ages), 0, hi + 1)) \in Nat
               /\ Cardinality(Aging(ages, 0, hi)) \in Nat
    <2>1. Older(ages) \in Ages
      BY AgesTypes
    <2>2. Cardinality(Aging(Older(ages), -1 + 1, hi + 1)) <= Cardinality(Aging(ages, -1, hi))
      BY OlderAdmitted
    <2>3. Aging(ages, -1, hi) = Aging(ages, 0, hi) /\ -1 + 1 = 0
      BY AllAges
    <2> QED BY <2>1, <2>2, <2>3, AgingFinite
  <1>4. ASSUME NEW ages \in Ages
        PROVE  /\ Total(Older(ages)) <= Total(ages)
               /\ Total(Older(ages)) <= Cardinality(Aging(ages, 0, Window - 1))
               /\ Total(Older(ages)) \in Nat /\ Total(ages) \in Nat
    <2>1. (Window - 1) + 1 = Window /\ Window - 1 \in Int
      BY <1>1
    <2>2. Older(ages) \in Ages
      BY AgesTypes
    <2>3. Total(Older(ages)) = Cardinality(Aging(Older(ages), 0, Window))
      BY <2>2, AllAges
    <2>4. Total(Older(ages)) <= Cardinality(Aging(ages, 0, Window - 1))
      BY <1>3, <2>1, <2>3
    <2>5. /\ Cardinality(Aging(ages, 0, Window - 1)) <= Total(ages)
          /\ Cardinality(Aging(ages, 0, Window - 1)) \in Nat
          /\ Total(ages) \in Nat /\ Total(Older(ages)) \in Nat
      BY <2>1, <2>2, AgingFinite
    <2> QED BY <2>4, <2>5
  <1>5. Total(m.bucket) <= max
    <2>1. Total(l.bucket) <= max
      BY DEF WindowOf
    <2> QED BY <1>1, <1>2, <1>4, <2>1
  <1>6. ASSUME l.left <= 1 PROVE WindowOf(m, max)
    <2>1. Total(m.counted) <= max - 1
      <3>1. CASE l.left = 0
        <4>1. Total(l.counted) <= max - 1
          BY <3>1 DEF WindowOf
        <4> QED BY <1>1, <1>2, <1>4, <4>1
      <3>2. CASE l.left = 1
        <4>1. Cardinality(Aging(l.counted, 0, Window - 1)) <= Lower(l.count, max) - 1
          BY <1>1, <3>2 DEF WindowOf
        <4>2. Lower(l.count, max) <= max /\ Lower(l.count, max) \in Nat
          BY <1>1, Lowers
        <4>3. Cardinality(Aging(l.counted, 0, Window - 1)) \in Nat
          BY <1>1, AgingFinite
        <4> QED BY <1>1, <1>2, <1>4, <4>1, <4>2, <4>3
      <3> QED BY <1>1, <1>6, <3>1, <3>2
    <2>2. m.left = 0 /\ ~ (m.left > 0) /\ m.count = 0 /\ m.counted[0] = 0
      BY <1>1, <1>2, <1>6, OlderAdmitted
    <2> QED BY <1>5, <2>1, <2>2 DEF WindowOf
  <1>7. ASSUME l.left > 1 PROVE WindowOf(m, max)
    <2>1. /\ m.left > 0 /\ m.left # 0 /\ Window - m.left = since + 1 /\ m.count = l.count
      BY <1>1, <1>2, <1>7
    <2>2. /\ l.count >= 1
          /\ Cardinality(Aging(l.counted, 0, since + 1)) <= Lower(l.count, max)
          /\ Cardinality(Aging(l.counted, 0, since)) <= Lower(l.count, max) - 1
          /\ Cardinality(Aging(l.counted, since + 1, Window)) <= max - 1
      BY <1>1, <1>7 DEF WindowOf
    <2>3. Lower(l.count, max) \in Nat
      BY <1>1, Lowers
    <2> HIDE DEF since
    <2>4. Cardinality(Aging(m.counted, 0, (since + 1) + 1)) <= Lower(l.count, max)
      BY <1>1, <1>2, <1>3, <2>2, <2>3
    <2>5. Cardinality(Aging(m.counted, 0, since + 1)) <= Lower(l.count, max) - 1
      BY <1>1, <1>2, <1>3, <2>2, <2>3
    <2>6. Cardinality(Aging(m.counted, (since + 1) + 1, Window)) <= max - 1
      <3>1. m.counted \in Ages
        BY <1>1, <1>2, AgesTypes
      <3>2. Aging(m.counted, (since + 1) + 1, Window)
              \in SUBSET Aging(m.counted, (since + 1) + 1, Window + 1)
        BY <1>1, <3>1, RequestFields DEF Aging
      <3>3. IsFiniteSet(Aging(m.counted, (since + 1) + 1, Window + 1))
        BY <1>1, <3>1, AgingFinite
      <3>4. /\ Cardinality(Aging(m.counted, (since + 1) + 1, Window))
                 <= Cardinality(Aging(m.counted, (since + 1) + 1, Window + 1))
            /\ Cardinality(Aging(m.counted, (since + 1) + 1, Window)) \in Nat
            /\ Cardinality(Aging(m.counted, (since + 1) + 1, Window + 1)) \in Nat
        BY <3>2, <3>3, PartBound
      <3>5. Cardinality(Aging(m.counted, (since + 1) + 1, Window + 1))
              <= Cardinality(Aging(l.counted, since + 1, Window))
        BY <1>1, <1>2, OlderAdmitted
      <3>6. Cardinality(Aging(l.counted, since + 1, Window)) \in Nat
        BY <1>1, AgingFinite
      <3> QED BY <1>1, <2>2, <3>4, <3>5, <3>6
    <2>7. LET s == Window - m.left
          IN  /\ m.count >= 1
              /\ Cardinality(Aging(m.counted, 0, s + 1)) <= Lower(m.count, max)
              /\ Cardinality(Aging(m.counted, 0, s)) <= Lower(m.count, max) - 1
              /\ Cardinality(Aging(m.counted, s + 1, Window)) <= max - 1
      BY <2>1, <2>2, <2>4, <2>5, <2>6
    <2> QED BY <1>5, <2>1, <2>7 DEF WindowOf
  <1> QED BY <1>1, <1>6, <1>7 DEF m

LEMMA TickKeepsWindow ==
  ASSUME LimitOK, WindowInv, limit' = [e \in Endpoint |-> Aged(limit[e])]
  PROVE  WindowInv'
  <1>1. ASSUME NEW e \in Endpoint
        PROVE  WindowOf(Aged(limit[e]), MaxRequests[e])
    <2>1. limit[e] \in Limiter /\ MaxRequests[e] \in Nat \ {0} /\ WindowOf(limit[e], MaxRequests[e])
      BY FieldTypes, LoginAssumption DEF WindowInv
    <2> QED BY <2>1, AgeKeepsWindow
  <1> QED BY <1>1 DEF WindowInv

LEMMA RestartKeepsWindow ==
  ASSUME LimitOK, WindowInv,
         \/ limit' = [e \in Endpoint |-> [limit[e] EXCEPT !.bucket = None]]
         \/ limit' = [e \in Endpoint |-> [WithKey(limit[e], 0, 0) EXCEPT !.counted = None]]
  PROVE  WindowInv'
  <1>1. ASSUME NEW e \in Endpoint
        PROVE  /\ WindowOf([limit[e] EXCEPT !.bucket = None], MaxRequests[e])
               /\ WindowOf([WithKey(limit[e], 0, 0) EXCEPT !.counted = None], MaxRequests[e])
    <2> DEFINE l == limit[e]
               a == [l EXCEPT !.bucket = None]
               r == [WithKey(l, 0, 0) EXCEPT !.counted = None]
    <2>1. l \in Limiter /\ MaxRequests[e] \in Nat /\ MaxRequests[e] >= 1
      BY FieldTypes, LoginAssumption
    <2>2. WindowOf(l, MaxRequests[e])
      BY DEF WindowInv
    <2>3. /\ a.count = l.count /\ a.left = l.left /\ a.counted = l.counted /\ a.bucket = None
          /\ r.count = 0 /\ r.left = 0 /\ r.counted = None /\ r.bucket = l.bucket
      BY <2>1 DEF Limiter, WithKey
    <2> HIDE DEF l, a, r
    <2>4. WindowOf(a, MaxRequests[e])
      BY <2>1, <2>2, <2>3, NoneAdmitted DEF WindowOf
    <2>5. WindowOf(r, MaxRequests[e])
      BY <2>1, <2>2, <2>3, NoneAdmitted DEF WindowOf
    <2> QED BY <2>4, <2>5 DEF l, a, r
  <1> QED BY <1>1 DEF WindowInv

LEMMA WindowKept ==
  ASSUME LimitOK, WindowInv, [Next]_vars
  PROVE  WindowInv'
  <1>1. CASE UNCHANGED limit
    BY <1>1 DEF WindowInv
  <1>2. CASE RequestCode \/ Login
    BY <1>2, AdmitKeepsWindow DEF RequestCode, Login, Endpoint
  <1>3. CASE Tick
    BY <1>3, TickKeepsWindow DEF Tick
  <1>4. CASE ApiRestarts \/ RedisRestarts
    BY <1>4, RestartKeepsWindow DEF ApiRestarts, RedisRestarts
  <1> QED BY <1>1, <1>2, <1>3, <1>4, RefuseKeepsWindow DEF Next, Logout, vars

LEMMA InitWindow == ASSUME Init PROVE WindowInv
  <1> DEFINE l == [count |-> 0, left |-> 0, bucket |-> None, counted |-> None]
  <1>1. \A e \in Endpoint : limit[e] = l /\ MaxRequests[e] \in Nat /\ MaxRequests[e] >= 1
    BY LoginAssumption DEF Init
  <1>2. l.count = 0 /\ l.left = 0 /\ l.bucket = None /\ l.counted = None
    OBVIOUS
  <1> HIDE DEF l
  <1> QED BY <1>1, <1>2, NoneAdmitted DEF WindowInv, WindowOf

\* Any Window in which neither Redis nor the API restarts sees fewer requests
\* of an endpoint than three times its limit, however they fall into the
\* windows of Redis and whatever it refuses, or counts without an answer.  A
\* restart empties one of the two tables, and the requests in it are forgotten.
THEOREM AdmittedInWindowHolds == Spec => []AdmittedInWindow
  <1>1. ASSUME Inv, WindowInv, [Next]_vars PROVE WindowInv'
    BY <1>1, WindowKept DEF Inv, TypeOK, LimitOK
  <1>2. ASSUME Inv, WindowInv PROVE AdmittedInWindow
    <2>1. ASSUME NEW e \in Endpoint
          PROVE  Total(limit[e].bucket) + Total(limit[e].counted) < 3 * MaxRequests[e]
      <3> DEFINE l == limit[e]
                 max == MaxRequests[e]
                 since == Window - l.left
      <3>1. /\ l.count \in Nat /\ l.left \in 0 .. Window /\ l.bucket \in Ages /\ l.counted \in Ages
            /\ max \in Nat /\ max >= 1 /\ Window \in Nat
        BY <1>2, FieldTypes, LoginAssumption DEF Inv, TypeOK, LimitOK
      <3>2. /\ Total(l.bucket) \in Nat /\ Total(l.counted) \in Nat /\ Total(l.bucket) <= max
        BY <1>2, <3>1, AgingFinite DEF WindowInv, WindowOf
      <3>3. CASE l.left = 0
        <4>1. Total(l.counted) <= max - 1
          BY <1>2, <3>3 DEF WindowInv, WindowOf
        <4> HIDE DEF l, max
        <4> QED BY <3>1, <3>2, <4>1 DEF l, max
      <3>4. CASE l.left # 0
        <4>1. l.left > 0 /\ since + 1 \in Int
          BY <3>1, <3>4
        <4>2. /\ Cardinality(Aging(l.counted, 0, since + 1)) <= Lower(l.count, max)
              /\ Cardinality(Aging(l.counted, since + 1, Window)) <= max - 1
          BY <1>2, <4>1 DEF WindowInv, WindowOf
        <4>3. Total(l.counted) <= Cardinality(Aging(l.counted, 0, since + 1))
                                   + Cardinality(Aging(l.counted, since + 1, Window))
          BY <3>1, <4>1, AllAges
        <4>4. /\ Cardinality(Aging(l.counted, 0, since + 1)) \in Nat
              /\ Cardinality(Aging(l.counted, since + 1, Window)) \in Nat
              /\ Lower(l.count, max) \in Nat /\ Lower(l.count, max) <= max
          <5>1. 0 \in Int /\ Window \in Int /\ l.counted \in Ages
            BY <3>1
          <5>2. Lower(l.count, max) \in Nat /\ Lower(l.count, max) <= max
            BY <3>1, Lowers
          <5> HIDE DEF l, since
          <5> QED BY <4>1, <5>1, <5>2, AgingFinite
        <4> HIDE DEF l, max, since
        <4>5. Total(l.bucket) + Total(l.counted) < 3 * max
          BY <3>1, <3>2, <4>2, <4>3, <4>4
        <4> QED BY <4>5 DEF l, max
      <3> QED BY <3>3, <3>4
    <2> QED BY <2>1 DEF AdmittedInWindow
  <1> QED BY <1>1, <1>2, InitWindow, InvHolds, PTL DEF Spec

=============================================================================
