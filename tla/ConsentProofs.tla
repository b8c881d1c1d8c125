----------------------------- MODULE ConsentProofs -----------------------------
(***************************************************************************)
(* For every number of tools, scripts and calls, whatever the quota and the *)
(* changes of mode: nothing runs without a word of its own, no call runs    *)
(* twice, no script makes more calls than its quota, and none of them       *)
(* starts once the use of the script is over, unless its dispatcher missed  *)
(* its cancellation and its tool was cancelled in turn.                     *)
(***************************************************************************)
EXTENDS Consent, FiniteSetTheorems, TLAPS

(***************************************************************************)
(* The inductive invariant.  What ran, or may run, was allowed by a word    *)
(* (Worded); a question runs in the step that uses it up (Fired).  A        *)
(* dispatcher that serves is of a script that is not over, serves one       *)
(* request, of its own script, and has room in its quota for it (Serves);   *)
(* what was not taken yet was not asked yet (Untouched).  A tool waits for  *)
(* a dispatcher, or has left it behind, only if that dispatcher missed its  *)
(* cancellation (Lingers).  Then the calls counted are the requests that    *)
(* ran (Counted).                                                           *)
(***************************************************************************)
Worded == \A q \in Questions : question[q] \in {"allowed", "used"} => said[q] \in {"always", "yes"}

Fired == \A q \in Questions : runs[q] = (IF question[q] = "used" THEN 1 ELSE 0)

Serves ==
  \A s \in Scripts : \A r \in serving[s] :
    /\ Of[r] = s /\ Looping(s)
    /\ \A k \in serving[s] : k = r
    /\ question[r] \notin {"unasked", "left"}
    /\ question[r] # "used" => calls[s] < Quota

Untouched ==
  /\ \A s \in Scripts : script[s] = "idle" => question[s] = "unasked"
  /\ \A r \in Requests : request[r] = "none" => question[r] = "unasked" /\ r \notin file
  /\ \A r \in file \ reply : r \notin serving[Of[r]] => question[r] = "unasked"

Lingers == \A s \in Scripts : script[s] \in {"closing", "stuck", "orphan"} => s \in missed

Ran(s) == {r \in Requests : Of[r] = s /\ runs[r] > 0}
Counted == \A s \in Scripts : IsFiniteSet(Ran(s)) /\ Cardinality(Ran(s)) = calls[s]

Core == Worded /\ Fired /\ Serves /\ Untouched /\ Lingers
Inv == TypeOK /\ Core /\ Counted

-----------------------------------------------------------------------------
LEMMA InitInv == Init => Inv
  <1> SUFFICES ASSUME Init PROVE Inv
    OBVIOUS
  <1> USE ConsentAssumption
  <1>1. TypeOK
    BY DEF Init, TypeOK, Questions, Modes
  <1>2. Core
    BY DEF Init, Core, Worded, Fired, Serves, Untouched, Lingers, Questions
  <1>3. \A s \in Scripts : Ran(s) = {}
    BY DEF Init, Ran, Questions
  <1>4. Counted
    BY <1>3, FS_EmptySet DEF Counted, Init
  <1> QED
    BY <1>1, <1>2, <1>4 DEF Inv

\* The actions that start nothing leave the count as it is.
LEMMA CountStands ==
  ASSUME Counted, UNCHANGED <<runs, calls>>
  PROVE  Counted'
  <1>1. \A s \in Scripts : Ran(s)' = Ran(s)
    BY DEF Ran
  <1> QED
    BY <1>1 DEF Counted

\* So do those that start something else than a request.
LEMMA CountIgnores ==
  ASSUME Counted, TypeOK, NEW q \in Questions \ Requests, Start(q), calls' = calls
  PROVE  Counted'
  <1>1. \A s \in Scripts : Ran(s)' = Ran(s)
    BY DEF Ran, Start, TypeOK, Questions
  <1> QED
    BY <1>1 DEF Counted

LEMMA StepInv == Inv /\ [Next]_vars => Inv'
  <1> SUFFICES ASSUME Inv, [Next]_vars PROVE Inv'
    OBVIOUS
  <1> USE ConsentAssumption DEF Inv, Core
  <1>1. ASSUME NEW q \in Questions, Resolve(q) PROVE Inv'
    <2>1. TypeOK'
      BY <1>1 DEF Resolve, Heard, TypeOK, Questions, Modes, bridge, Serves
    <2>2. Worded'
      BY <1>1 DEF Resolve, Heard, TypeOK, Worded, Questions, bridge
    <2>3. Fired'
      BY <1>1 DEF Resolve, Heard, TypeOK, Fired, Untouched, Questions, bridge
    <2>4. Serves'
      BY <1>1 DEF Resolve, Heard, TypeOK, Serves, Untouched, Looping, Questions, bridge
    <2>5. Untouched'
      BY <1>1 DEF Resolve, Heard, TypeOK, Serves, Untouched, Looping, Questions, bridge
    <2>9. Lingers'
      BY <1>1 DEF Resolve, TypeOK, Lingers, bridge
    <2>6. Counted'
      BY <1>1, CountStands DEF Resolve, bridge
    <2> QED
      BY <2>1, <2>2, <2>3, <2>4, <2>5, <2>6, <2>9
  <1>2. ASSUME NEW q \in Questions, Expires(q) PROVE Inv'
    <2>1. TypeOK'
      BY <1>2 DEF Expires, TypeOK, Questions, Modes, bridge, Serves
    <2>2. Worded'
      BY <1>2 DEF Expires, TypeOK, Worded, Questions, bridge
    <2>3. Fired'
      BY <1>2 DEF Expires, TypeOK, Fired, Untouched, Questions, bridge
    <2>4. Serves'
      BY <1>2 DEF Expires, TypeOK, Serves, Untouched, Looping, Questions, bridge
    <2>5. Untouched'
      BY <1>2 DEF Expires, TypeOK, Serves, Untouched, Looping, Questions, bridge
    <2>9. Lingers'
      BY <1>2 DEF Expires, TypeOK, Lingers, bridge
    <2>6. Counted'
      BY <1>2, CountStands DEF Expires, bridge
    <2> QED
      BY <2>1, <2>2, <2>3, <2>4, <2>5, <2>6, <2>9
  <1>3. CASE ChangeMode
    <2>1. TypeOK'
      BY <1>3 DEF ChangeMode, TypeOK, Questions, Modes, bridge, Serves
    <2>2. Worded'
      BY <1>3 DEF ChangeMode, TypeOK, Worded, Questions, bridge
    <2>3. Fired'
      BY <1>3 DEF ChangeMode, TypeOK, Fired, Untouched, Questions, bridge
    <2>4. Serves'
      BY <1>3 DEF ChangeMode, TypeOK, Serves, Untouched, Looping, Questions, bridge
    <2>5. Untouched'
      BY <1>3 DEF ChangeMode, TypeOK, Serves, Untouched, Looping, Questions, bridge
    <2>9. Lingers'
      BY <1>3 DEF ChangeMode, TypeOK, Lingers, bridge
    <2>6. Counted'
      BY <1>3, CountStands DEF ChangeMode, bridge
    <2> QED
      BY <2>1, <2>2, <2>3, <2>4, <2>5, <2>6, <2>9
  <1>4. ASSUME NEW p \in Plain, Ask(p) PROVE Inv'
    <2>1. TypeOK'
      <3>1. p \in Questions /\ question' \in [Questions -> {"unasked", "waiting", "left", "allowed", "denied", "used"}]
        BY <1>4 DEF Ask, Check, TypeOK, Questions
      <3>2. pending' \subseteq Questions /\ said' \in [Questions -> {"nothing", "always", "yes", "no"}]
        BY <1>4, <3>1 DEF Ask, Check, TypeOK
      <3> QED
        BY <1>4, <3>1, <3>2 DEF Ask, TypeOK, bridge
    <2>2. Worded'
      BY <1>4 DEF Ask, Check, Category, TypeOK, Worded, Questions, bridge
    <2>3. Fired'
      BY <1>4 DEF Ask, Check, Category, TypeOK, Fired, Untouched, Questions, bridge
    <2>4. Serves'
      BY <1>4 DEF Ask, Check, Category, TypeOK, Serves, Untouched, Looping, Questions, bridge
    <2>5. Untouched'
      BY <1>4 DEF Ask, Check, Category, TypeOK, Serves, Untouched, Looping, Questions, bridge
    <2>9. Lingers'
      BY <1>4 DEF Ask, TypeOK, Lingers, bridge
    <2>6. Counted'
      BY <1>4, CountStands DEF Ask, bridge
    <2> QED
      BY <2>1, <2>2, <2>3, <2>4, <2>5, <2>6, <2>9
  <1>5. ASSUME NEW p \in Plain, Act(p) PROVE Inv'
    <2>1. TypeOK'
      BY <1>5 DEF Act, Start, TypeOK, Questions, Modes, bridge, Serves
    <2>2. Worded'
      BY <1>5 DEF Act, Start, TypeOK, Worded, Questions, bridge
    <2>3. Fired'
      BY <1>5 DEF Act, Start, TypeOK, Fired, Untouched, Questions, bridge
    <2>4. Serves'
      BY <1>5 DEF Act, Start, TypeOK, Serves, Untouched, Looping, Questions, bridge
    <2>5. Untouched'
      BY <1>5 DEF Act, Start, TypeOK, Serves, Untouched, Looping, Questions, bridge
    <2>9. Lingers'
      BY <1>5 DEF Act, TypeOK, Lingers, bridge
    <2>6. Counted'
      BY <1>5, CountIgnores DEF Act, Questions, bridge
    <2> QED
      BY <2>1, <2>2, <2>3, <2>4, <2>5, <2>6, <2>9
  <1>6. ASSUME NEW s \in Scripts, Submit(s) PROVE Inv'
    <2>1. TypeOK'
      BY <1>6 DEF Submit, Check, Category, TypeOK, Questions, Modes, bridge, Serves
    <2>2. Worded'
      BY <1>6 DEF Submit, Check, Category, TypeOK, Worded, Questions, bridge
    <2>3. Fired'
      BY <1>6 DEF Submit, Check, Category, TypeOK, Fired, Untouched, Questions, bridge
    <2>4. Serves'
      BY <1>6 DEF Submit, Check, Category, TypeOK, Serves, Untouched, Looping, Questions, bridge
    <2>5. Untouched'
      BY <1>6 DEF Submit, Check, Category, TypeOK, Serves, Untouched, Looping, Questions, bridge
    <2>9. Lingers'
      BY <1>6 DEF Submit, Check, TypeOK, Lingers, bridge
    <2>6. Counted'
      BY <1>6, CountStands DEF Submit, bridge
    <2> QED
      BY <2>1, <2>2, <2>3, <2>4, <2>5, <2>6, <2>9
  <1>7. ASSUME NEW s \in Scripts, TiresOfAsking(s) PROVE Inv'
    <2>1. TypeOK'
      BY <1>7 DEF TiresOfAsking, Leave, TypeOK, Questions, Modes, bridge, Serves
    <2>2. Worded'
      BY <1>7 DEF TiresOfAsking, Leave, TypeOK, Worded, Questions, bridge
    <2>3. Fired'
      BY <1>7 DEF TiresOfAsking, Leave, TypeOK, Fired, Untouched, Questions, bridge
    <2>4. Serves'
      BY <1>7 DEF TiresOfAsking, Leave, TypeOK, Serves, Untouched, Looping, Questions, bridge
    <2>5. Untouched'
      BY <1>7 DEF TiresOfAsking, Leave, TypeOK, Serves, Untouched, Looping, Questions, bridge
    <2>9. Lingers'
      BY <1>7 DEF TiresOfAsking, TypeOK, Lingers, bridge
    <2>6. Counted'
      BY <1>7, CountStands DEF TiresOfAsking, bridge
    <2> QED
      BY <2>1, <2>2, <2>3, <2>4, <2>5, <2>6, <2>9
  <1>8. ASSUME NEW s \in Scripts, Begin(s) PROVE Inv'
    <2>1. TypeOK'
      <3>1. s \in Questions /\ script' \in [Scripts -> {"idle", "asking", "running", "closing", "stuck", "orphan", "over"}]
        BY <1>8 DEF Begin, TypeOK, Questions
      <3>2. CASE question[s] = "allowed"
        BY <1>8, <3>1, <3>2 DEF Begin, Start, TypeOK, bridge
      <3>3. CASE question[s] = "denied"
        BY <1>8, <3>1, <3>3 DEF Begin, TypeOK, bridge
      <3> QED
        BY <1>8, <3>2, <3>3 DEF Begin
    <2>2. Worded'
      BY <1>8 DEF Begin, Start, TypeOK, Worded, Questions, bridge
    <2>3. Fired'
      BY <1>8 DEF Begin, Start, TypeOK, Fired, Untouched, Questions, bridge
    <2>4. Serves'
      BY <1>8 DEF Begin, Start, TypeOK, Serves, Untouched, Looping, Questions, bridge
    <2>5. Untouched'
      BY <1>8 DEF Begin, Start, TypeOK, Serves, Untouched, Looping, Questions, bridge
    <2>9. Lingers'
      BY <1>8 DEF Begin, Start, TypeOK, Lingers, bridge
    <2>6. Counted'
      BY <1>8, CountIgnores, CountStands DEF Begin, Questions, bridge
    <2> QED
      BY <2>1, <2>2, <2>3, <2>4, <2>5, <2>6, <2>9
  <1>9. ASSUME NEW s \in Scripts, Turns(s) PROVE Inv'
    <2>1. TypeOK'
      BY <1>9 DEF Turns, Idle, Replies, Due, TypeOK, Questions, Modes, bridge, Serves
    <2>2. Worded'
      BY <1>9 DEF Turns, Idle, Replies, Due, TypeOK, Worded, Questions, bridge
    <2>3. Fired'
      BY <1>9 DEF Turns, Idle, Replies, Due, TypeOK, Fired, Untouched, Questions, bridge
    <2>4. Serves'
      BY <1>9 DEF Turns, Idle, Replies, Due, TypeOK, Serves, Untouched, Looping, Questions, bridge
    <2>5. Untouched'
      BY <1>9 DEF Turns, Idle, Replies, Due, TypeOK, Serves, Untouched, Looping, Questions, bridge
    <2>9. Lingers'
      BY <1>9 DEF Turns, TypeOK, Lingers, bridge
    <2>6. Counted'
      BY <1>9, CountStands DEF Turns, bridge
    <2> QED
      BY <2>1, <2>2, <2>3, <2>4, <2>5, <2>6, <2>9
  <1>10. ASSUME NEW s \in Scripts, Takes(s) PROVE Inv'
    <2>1. TypeOK'
      <3>1. PICK r \in Due(s) : Check(r) /\ serving' = [serving EXCEPT ![s] = @ \cup {r}]
        BY <1>10 DEF Takes
      <3>2. r \in Requests /\ r \in Questions
        BY <3>1 DEF Due, TypeOK, Questions
      <3>3. /\ question' \in [Questions -> {"unasked", "waiting", "left", "allowed", "denied", "used"}]
            /\ said' \in [Questions -> {"nothing", "always", "yes", "no"}]
            /\ pending' \subseteq Questions
        BY <3>1, <3>2 DEF Check, TypeOK
      <3>4. serving' \in [Scripts -> SUBSET Requests]
        BY <3>1, <3>2 DEF TypeOK
      <3> QED
        BY <1>10, <3>3, <3>4 DEF Takes, TypeOK
    <2>2. Worded'
      BY <1>10 DEF Takes, Check, Category, Idle, Due, TypeOK, Worded, Questions, bridge
    <2>3. Fired'
      BY <1>10 DEF Takes, Check, Category, Idle, Due, TypeOK, Fired, Untouched, Questions, bridge
    <2>4. Serves'
      BY <1>10 DEF Takes, Check, Category, Idle, Due, TypeOK, Serves, Untouched, Looping, Questions, bridge
    <2>5. Untouched'
      BY <1>10 DEF Takes, Check, Category, Idle, Due, TypeOK, Serves, Untouched, Looping, Questions, bridge
    <2>9. Lingers'
      BY <1>10 DEF Takes, TypeOK, Lingers, bridge
    <2>6. Counted'
      BY <1>10, CountStands DEF Takes, bridge
    <2> QED
      BY <2>1, <2>2, <2>3, <2>4, <2>5, <2>6, <2>9
  <1>11. ASSUME NEW s \in Scripts, End(s) PROVE Inv'
    <2>1. TypeOK'
      <3>1. question' \in [Questions -> {"unasked", "waiting", "left", "allowed", "denied", "used"}]
        BY <1>11 DEF End, Stop, Cancels, Leave, TypeOK
      <3>2. /\ script' \in [Scripts -> {"idle", "asking", "running", "closing", "stuck", "orphan", "over"}]
            /\ missed' \subseteq Scripts
        BY <1>11 DEF End, Stop, TypeOK
      <3>3. /\ file' \subseteq Requests /\ reply' \subseteq Requests
            /\ serving' \in [Scripts -> SUBSET Requests]
        BY <1>11 DEF End, Stop, Cancels, TypeOK
      <3> QED
        BY <1>11, <3>1, <3>2, <3>3 DEF End, Stop, TypeOK
    <2>2. Worded'
      BY <1>11 DEF End, Stop, Cancels, Leave, TypeOK, Worded, Questions, bridge
    <2>3. Fired'
      BY <1>11 DEF End, Stop, Cancels, Leave, TypeOK, Fired, Untouched, Questions, bridge
    <2>4. Serves'
      BY <1>11 DEF End, Stop, Cancels, Leave, TypeOK, Serves, Untouched, Looping, Questions, bridge
    <2>5. Untouched'
      BY <1>11 DEF End, Stop, Cancels, Leave, TypeOK, Serves, Untouched, Looping, Questions, bridge
    <2>9. Lingers'
      BY <1>11 DEF End, Stop, Cancels, TypeOK, Lingers, bridge
    <2>6. Counted'
      BY <1>11, CountStands DEF End, Stop, bridge
    <2> QED
      BY <2>1, <2>2, <2>3, <2>4, <2>5, <2>6, <2>9
  <1>12. ASSUME NEW s \in Scripts, HardLimit(s) PROVE Inv'
    <2>1. TypeOK'
      <3>1. question' \in [Questions -> {"unasked", "waiting", "left", "allowed", "denied", "used"}]
        BY <1>12 DEF HardLimit, Stop, Cancels, Leave, TypeOK
      <3>2. /\ script' \in [Scripts -> {"idle", "asking", "running", "closing", "stuck", "orphan", "over"}]
            /\ missed' \subseteq Scripts
        BY <1>12 DEF HardLimit, Stop, TypeOK
      <3>3. /\ file' \subseteq Requests /\ reply' \subseteq Requests
            /\ serving' \in [Scripts -> SUBSET Requests]
        BY <1>12 DEF HardLimit, Stop, Cancels, TypeOK
      <3> QED
        BY <1>12, <3>1, <3>2, <3>3 DEF HardLimit, Stop, TypeOK
    <2>2. Worded'
      BY <1>12 DEF HardLimit, Stop, Cancels, Leave, TypeOK, Worded, Questions, bridge
    <2>3. Fired'
      BY <1>12 DEF HardLimit, Stop, Cancels, Leave, TypeOK, Fired, Untouched, Questions, bridge
    <2>4. Serves'
      BY <1>12 DEF HardLimit, Stop, Cancels, Leave, TypeOK, Serves, Untouched, Looping, Questions, bridge
    <2>5. Untouched'
      BY <1>12 DEF HardLimit, Stop, Cancels, Leave, TypeOK, Serves, Untouched, Looping, Questions, bridge
    <2>9. Lingers'
      BY <1>12 DEF HardLimit, Stop, Cancels, TypeOK, Lingers, bridge
    <2>6. Counted'
      BY <1>12, CountStands DEF HardLimit, Stop, bridge
    <2> QED
      BY <2>1, <2>2, <2>3, <2>4, <2>5, <2>6, <2>9
  <1>13. ASSUME NEW r \in Requests, Post(r) PROVE Inv'
    <2>1. TypeOK'
      BY <1>13 DEF Post, Alive, TypeOK, Questions, Modes, bridge, Serves
    <2>2. Worded'
      BY <1>13 DEF Post, Alive, TypeOK, Worded, Questions, bridge
    <2>3. Fired'
      BY <1>13 DEF Post, Alive, TypeOK, Fired, Untouched, Questions, bridge
    <2>4. Serves'
      BY <1>13 DEF Post, Alive, TypeOK, Serves, Untouched, Looping, Questions, bridge
    <2>5. Untouched'
      BY <1>13 DEF Post, Alive, TypeOK, Serves, Untouched, Looping, Questions, bridge
    <2>9. Lingers'
      BY <1>13 DEF Post, TypeOK, Lingers, bridge
    <2>6. Counted'
      BY <1>13, CountStands DEF Post, bridge
    <2> QED
      BY <2>1, <2>2, <2>3, <2>4, <2>5, <2>6, <2>9
  <1>14. ASSUME NEW r \in Requests, Collect(r) PROVE Inv'
    <2>1. TypeOK'
      BY <1>14 DEF Collect, Alive, TypeOK, Questions, Modes, bridge, Serves
    <2>2. Worded'
      BY <1>14 DEF Collect, Alive, TypeOK, Worded, Questions, bridge
    <2>3. Fired'
      BY <1>14 DEF Collect, Alive, TypeOK, Fired, Untouched, Questions, bridge
    <2>4. Serves'
      BY <1>14 DEF Collect, Alive, TypeOK, Serves, Untouched, Looping, Questions, bridge
    <2>5. Untouched'
      BY <1>14 DEF Collect, Alive, TypeOK, Serves, Untouched, Looping, Questions, bridge
    <2>9. Lingers'
      BY <1>14 DEF Collect, TypeOK, Lingers, bridge
    <2>6. Counted'
      BY <1>14, CountStands DEF Collect, bridge
    <2> QED
      BY <2>1, <2>2, <2>3, <2>4, <2>5, <2>6, <2>9
  <1>15. ASSUME NEW r \in Requests, Dispatch(r) PROVE Inv'
    <2>1. TypeOK'
      <3>1. r \in Questions /\ Of[r] \in Scripts
        BY DEF Questions
      <3>2. CASE question[r] = "allowed"
        <4>1. calls[Of[r]] < Quota
          BY <1>15, <3>1, <3>2 DEF Dispatch, Serves
        <4>2. calls' \in [Scripts -> 0..Quota]
          BY <1>15, <3>1, <3>2, <4>1 DEF Dispatch, TypeOK
        <4> QED
          BY <1>15, <3>1, <3>2, <4>2 DEF Dispatch, Start, TypeOK
      <3>3. CASE question[r] = "denied"
        BY <1>15, <3>1, <3>3 DEF Dispatch, Replies, TypeOK
      <3> QED
        BY <1>15, <3>2, <3>3 DEF Dispatch
    <2>2. Worded'
      BY <1>15 DEF Dispatch, Start, Replies, TypeOK, Worded, Questions, bridge
    <2>3. Fired'
      BY <1>15 DEF Dispatch, Start, Replies, TypeOK, Fired, Untouched, Questions, bridge
    <2>4. Serves'
      BY <1>15 DEF Dispatch, Start, Replies, TypeOK, Serves, Untouched, Looping, Questions, bridge
    <2>5. Untouched'
      BY <1>15 DEF Dispatch, Start, Replies, TypeOK, Serves, Untouched, Looping, Questions, bridge
    <2>9. Lingers'
      BY <1>15 DEF Dispatch, Start, Replies, TypeOK, Lingers, bridge
    <2>6. CASE question[r] = "denied"
      <3>1. Counted'
        BY <1>15, <2>6, CountStands DEF Dispatch
      <3> QED
        BY <2>1, <2>2, <2>3, <2>4, <2>5, <2>9, <3>1
    <2>7. CASE question[r] = "allowed"
      <3> DEFINE s == Of[r]
      <3>1. r \notin Ran(s) /\ Ran(s)' = Ran(s) \cup {r} /\ calls'[s] = calls[s] + 1
        BY <1>15, <2>7 DEF Dispatch, Start, Ran, Fired, TypeOK, Questions
      <3>2. \A k \in Scripts \ {s} : Ran(k)' = Ran(k) /\ calls'[k] = calls[k]
        BY <1>15, <2>7 DEF Dispatch, Start, Ran, TypeOK, Questions
      <3>3. IsFiniteSet(Ran(s)') /\ Cardinality(Ran(s)') = calls[s] + 1
        BY <3>1, FS_AddElement DEF Counted
      <3>4. Counted'
        BY <3>1, <3>2, <3>3 DEF Counted
      <3> QED
        BY <2>1, <2>2, <2>3, <2>4, <2>5, <2>9, <3>4
    <2> QED
      BY <1>15, <2>6, <2>7 DEF Dispatch
  <1>16. ASSUME NEW r \in Requests, Returns(r) PROVE Inv'
    <2>1. TypeOK'
      BY <1>16 DEF Returns, Replies, TypeOK, Questions, Modes, bridge, Serves
    <2>2. Worded'
      BY <1>16 DEF Returns, Replies, TypeOK, Worded, Questions, bridge
    <2>3. Fired'
      BY <1>16 DEF Returns, Replies, TypeOK, Fired, Untouched, Questions, bridge
    <2>4. Serves'
      BY <1>16 DEF Returns, Replies, TypeOK, Serves, Untouched, Looping, Questions, bridge
    <2>5. Untouched'
      BY <1>16 DEF Returns, Replies, TypeOK, Serves, Untouched, Looping, Questions, bridge
    <2>9. Lingers'
      BY <1>16 DEF Returns, TypeOK, Lingers, bridge
    <2>6. Counted'
      BY <1>16, CountStands DEF Returns, bridge
    <2> QED
      BY <2>1, <2>2, <2>3, <2>4, <2>5, <2>6, <2>9
  <1>17. ASSUME NEW p \in Plain, GivesUp(p) PROVE Inv'
    <2>1. TypeOK'
      BY <1>17 DEF GivesUp, Leave, TypeOK, Questions, Modes, bridge, Serves
    <2>2. Worded'
      BY <1>17 DEF GivesUp, Leave, TypeOK, Worded, Questions, bridge
    <2>3. Fired'
      BY <1>17 DEF GivesUp, Leave, TypeOK, Fired, Untouched, Questions, bridge
    <2>4. Serves'
      BY <1>17 DEF GivesUp, Leave, TypeOK, Serves, Untouched, Looping, Questions, bridge
    <2>5. Untouched'
      BY <1>17 DEF GivesUp, Leave, TypeOK, Serves, Untouched, Looping, Questions, bridge
    <2>6. Lingers'
      BY <1>17 DEF GivesUp, Leave, TypeOK, Lingers, bridge
    <2>7. Counted'
      BY <1>17, CountStands DEF GivesUp, bridge
    <2> QED
      BY <2>1, <2>2, <2>3, <2>4, <2>5, <2>6, <2>7
  <1>18. ASSUME NEW s \in Scripts, Withdraws(s) PROVE Inv'
    <2>1. TypeOK'
      BY <1>18 DEF Withdraws, Leave, TypeOK, Questions, Modes, bridge, Serves
    <2>2. Worded'
      BY <1>18 DEF Withdraws, Leave, TypeOK, Worded, Questions, bridge
    <2>3. Fired'
      BY <1>18 DEF Withdraws, Leave, TypeOK, Fired, Untouched, Questions, bridge
    <2>4. Serves'
      BY <1>18 DEF Withdraws, Leave, TypeOK, Serves, Untouched, Looping, Questions, bridge
    <2>5. Untouched'
      BY <1>18 DEF Withdraws, Leave, TypeOK, Serves, Untouched, Looping, Questions, bridge
    <2>6. Lingers'
      BY <1>18 DEF Withdraws, Leave, TypeOK, Lingers, bridge
    <2>7. Counted'
      BY <1>18, CountStands DEF Withdraws, bridge
    <2> QED
      BY <2>1, <2>2, <2>3, <2>4, <2>5, <2>6, <2>7
  <1>19. ASSUME NEW s \in Scripts, Deserts(s) PROVE Inv'
    <2>1. TypeOK'
      BY <1>19 DEF Deserts, TypeOK, Questions, Modes, bridge, Serves
    <2>2. Worded'
      BY <1>19 DEF Deserts, TypeOK, Worded, Questions, bridge
    <2>3. Fired'
      BY <1>19 DEF Deserts, TypeOK, Fired, Untouched, Questions, bridge
    <2>4. Serves'
      BY <1>19 DEF Deserts, TypeOK, Serves, Untouched, Looping, Questions, bridge
    <2>5. Untouched'
      BY <1>19 DEF Deserts, TypeOK, Serves, Untouched, Looping, Questions, bridge
    <2>6. Lingers'
      BY <1>19 DEF Deserts, TypeOK, Lingers, bridge
    <2>7. Counted'
      BY <1>19, CountStands DEF Deserts, bridge
    <2> QED
      BY <2>1, <2>2, <2>3, <2>4, <2>5, <2>6, <2>7
  <1>20. CASE UNCHANGED vars
    <2>1. TypeOK' /\ Worded' /\ Fired' /\ Serves' /\ Untouched' /\ Lingers'
      BY <1>20 DEF vars, bridge, TypeOK, Worded, Fired, Serves, Untouched, Lingers, Looping
    <2>2. Counted'
      BY <1>20, CountStands DEF vars, bridge
    <2> QED
      BY <2>1, <2>2
  <1> QED
    BY <1>1, <1>2, <1>3, <1>4, <1>5, <1>6, <1>7, <1>8, <1>9, <1>10, <1>11, <1>12, <1>13, <1>14, <1>15, <1>16, <1>17, <1>18, <1>19, <1>20
       DEF Next

-----------------------------------------------------------------------------
LEMMA AlwaysInv == Spec => []Inv
  BY InitInv, StepInv, PTL DEF Spec

\* Every variable keeps its type; the count of calls stays within the quota.
THEOREM TypeCorrect == Spec => []TypeOK
  <1>1. Inv => TypeOK
    BY DEF Inv
  <1> QED
    BY <1>1, AlwaysInv, PTL

\* Whatever is started was allowed by the mode of its category or by an answer to its own
\* question that came in time.
THEOREM AsksBeforeActing == Spec => []RunsOnItsOwnYes
  <1>1. Inv => RunsOnItsOwnYes
    BY DEF Inv, Core, Worded, Fired, RunsOnItsOwnYes
  <1> QED
    BY <1>1, AlwaysInv, PTL

\* The bridge makes a call once at most, and no more calls of a script than the quota.
THEOREM BridgeKeepsItsQuota == Spec => []BridgeIsMetered
  <1>1. Inv => BridgeIsMetered
    <2> SUFFICES ASSUME Inv PROVE BridgeIsMetered
      OBVIOUS
    <2>1. \A r \in Requests : runs[r] <= 1
      BY DEF Inv, Core, Fired, Questions
    <2>2. \A s \in Scripts : Cardinality(Ran(s)) <= Quota
      BY ConsentAssumption DEF Inv, TypeOK, Counted
    <2> QED
      BY <2>1, <2>2 DEF BridgeIsMetered, Ran
  <1> QED
    BY <1>1, AlwaysInv, PTL

\* Whatever is asked, answered or cancelled, no call starts once the use of its script is
\* over, unless its dispatcher missed its cancellation and its tool was cancelled in turn.
THEOREM EndIsTheEnd == Spec => NothingAfterTheEnd
  <1>1. Inv /\ [Next]_vars => [\A r \in Requests : runs'[r] > runs[r] =>
           /\ script[Of[r]] # "over"
           /\ script[Of[r]] = "orphan" => Of[r] \in missed]_vars
    <2> SUFFICES ASSUME Inv, Next, NEW r \in Requests, runs'[r] > runs[r]
                 PROVE  /\ script[Of[r]] # "over"
                        /\ script[Of[r]] = "orphan" => Of[r] \in missed
      OBVIOUS
    <2> USE ConsentAssumption
    <2>1. \/ runs' = runs
          \/ \E q \in Plain \cup Scripts : Start(q)
          \/ \E k \in Requests : Dispatch(k)
      BY DEF Next, Resolve, Expires, ChangeMode, Ask, Act, GivesUp, Submit, TiresOfAsking,
             Begin, Turns, Takes, End, HardLimit, Stop, Withdraws, Deserts, Post, Collect, Returns
    <2>2. runs \in [Questions -> Nat]
      BY DEF Inv, TypeOK
    <2>3. PICK k \in Requests : Dispatch(k)
      BY <2>1, <2>2 DEF Start, Questions
    <2>4. k = r
      BY <2>2, <2>3 DEF Dispatch, Start, Questions
    <2> QED
      BY <2>3, <2>4 DEF Dispatch, Inv, Core, Serves, Lingers, Looping
  <1> QED
    BY <1>1, AlwaysInv, PTL DEF Spec, NothingAfterTheEnd
==============================================================================
