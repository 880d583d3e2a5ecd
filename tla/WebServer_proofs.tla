--------------------------- MODULE WebServer_proofs ---------------------------
(***************************************************************************)
(* Every request, deadline and order of arrival: the server of WebServer   *)
(* implements HttpExchange and holds a connection for a bounded time.      *)
(***************************************************************************)
EXTENDS WebServer, TLAPS

-----------------------------------------------------------------------------
(* The invariant: what was parsed is what the lines read so far say.       *)

Heads(b, from, to) ==
  {Request[b].headers[i - 1] : i \in (from .. to) \cap (2 .. BlankAt(b) - 1)}
AllHeads(b) == {Request[b].headers[i] : i \in 1 .. Len(Request[b].headers)}

Resting ==
  /\ state = "Idle" <=> conn = None
  /\ state = "Idle" => answer = None /\ held = 0
  /\ read <= sent

Reading ==
  state = "ReadRequest" =>
    /\ answer = None /\ read < BlankAt(conn) /\ bodyLen = 0
    /\ line = IF read = 0 THEN None ELSE Request[conn].line
    /\ authOk <=> ("auth" \in Heads(conn, 1, read))
    /\ contentLen = IF "length" \in Heads(conn, 1, read) THEN Request[conn].length ELSE 0

ReadingBody ==
  state = "ReadBody" =>
    /\ answer = None
    /\ line = Request[conn].line
    /\ authOk <=> ("auth" \in AllHeads(conn))
    /\ "length" \in AllHeads(conn)
    /\ contentLen = Request[conn].length /\ contentLen < MaxBody
    /\ bodyLen <= contentLen

Responding == state = "Respond" => answer = Deserved(conn)

Timed ==
  /\ state \in {"ReadRequest", "ReadBody"} => held <= age /\ held <= RequestTimeout
  /\ state = "Respond" => held <= RequestTimeout + age /\ held <= Longest

IInv == TypeOK /\ Resting /\ Reading /\ ReadingBody /\ Responding /\ Timed

-----------------------------------------------------------------------------
(* The data.                                                               *)

LEMMA MinOfThree ==
  ASSUME NEW a \in Int, NEW b \in Int, NEW c \in Int
  PROVE  /\ Min({a, b, c}) \in {a, b, c}
         /\ Min({a, b, c}) <= a /\ Min({a, b, c}) <= b /\ Min({a, b, c}) <= c
<1> DEFINE S == {a, b, c}
<1>1. \E x \in S : \A y \in S : x <= y
  <2>1. CASE a <= b /\ a <= c
    BY <2>1
  <2>2. CASE b <= a /\ b <= c
    BY <2>2
  <2>3. CASE c <= a /\ c <= b
    BY <2>3
  <2> QED BY <2>1, <2>2, <2>3
<1>2. Min(S) \in S /\ \A y \in S : Min(S) <= y
  <2> HIDE DEF S
  <2> QED BY <1>1 DEF Min
<1> QED BY <1>2

LEMMA RequestType ==
  ASSUME NEW b \in Browsers
  PROVE  /\ Request[b].line \in Routes /\ Request[b].headers \in Seq(Headers)
         /\ Request[b].length \in Nat /\ Request[b].length # 0
         /\ Request[b].body \in Nat
         /\ Len(Request[b].headers) \in Nat
         /\ BlankAt(b) \in Nat /\ BlankAt(b) >= 2
<1>1. Request[b] \in Requests
  BY ConstantsAssumption
<1>2. /\ Request[b].line \in Routes /\ Request[b].headers \in Seq(Headers)
      /\ Request[b].length \in Nat \ {0} /\ Request[b].body \in Nat
  BY <1>1 DEF Requests
<1>3. Len(Request[b].headers) \in Nat
  BY <1>2
<1> QED BY <1>2, <1>3 DEF BlankAt

LEMMA HeadsAdd ==
  ASSUME NEW b \in Browsers, NEW k \in Nat, NEW l \in Nat, k <= l
  PROVE  Heads(b, 1, l) = Heads(b, 1, k) \cup Heads(b, k + 1, l)
<1>1. (1 .. l) = (1 .. k) \cup (k + 1 .. l)
  OBVIOUS
<1> QED BY <1>1 DEF Heads

LEMMA HeadsAll ==
  ASSUME NEW b \in Browsers
  PROVE  Heads(b, 1, BlankAt(b)) = AllHeads(b)
<1> DEFINE n == Len(Request[b].headers)
<1>1. n \in Nat /\ BlankAt(b) = n + 2
  BY RequestType DEF BlankAt
<1>2. (1 .. BlankAt(b)) \cap (2 .. BlankAt(b) - 1) = 2 .. n + 1
  BY <1>1
<1>3. ASSUME NEW h
      PROVE  h \in Heads(b, 1, BlankAt(b)) <=> h \in AllHeads(b)
  <2>1. ASSUME NEW i \in 2 .. n + 1, h = Request[b].headers[i - 1]
        PROVE  h \in AllHeads(b)
    <3>1. i - 1 \in 1 .. n
      BY <1>1
    <3> QED BY <2>1, <3>1 DEF AllHeads
  <2>2. ASSUME NEW i \in 1 .. n, h = Request[b].headers[i]
        PROVE  h \in Heads(b, 1, BlankAt(b))
    <3>1. i + 1 \in 2 .. n + 1 /\ (i + 1) - 1 = i
      BY <1>1
    <3>2. h = Request[b].headers[(i + 1) - 1]
      BY <2>2, <3>1
    <3> HIDE DEF n
    <3> QED BY <3>1, <3>2, <1>2 DEF Heads
  <2> QED BY <2>1, <2>2, <1>2 DEF Heads, AllHeads
<1> QED BY <1>3

LEMMA HeadsNone ==
  ASSUME NEW b \in Browsers
  PROVE  Heads(b, 1, 0) = {}
BY DEF Heads

LEMMA Deserving ==
  ASSUME NEW b \in Browsers
  PROVE  /\ "length" \in AllHeads(b) /\ Request[b].length >= MaxBody => Deserved(b) = "413"
         /\ ~("length" \in AllHeads(b) /\ Request[b].length >= MaxBody) =>
              \A auth : (auth <=> ("auth" \in AllHeads(b))) =>
                Deserved(b) = Routed(Request[b].line, auth)
BY DEF Routed, Deserved, AllHeads

LEMMA LongestType ==
  Longest \in Nat /\ RequestTimeout \in Nat /\ ResponseTimeout \in Nat
  /\ Longest = RequestTimeout + ResponseTimeout
BY ConstantsAssumption DEF Longest

LEMMA LaterType ==
  ASSUME NEW t \in 0 .. Longest + 1, NEW d \in 0 .. MaxPass
  PROVE  /\ Longest \in Nat
         /\ Later(t, d) \in 0 .. Longest + 1
         /\ t <= Later(t, d) /\ Later(t, d) <= t + d
         /\ Later(t, d) <= Longest => Later(t, d) = t + d
BY ConstantsAssumption DEF Longest, Later, Capped

LEMMA WaitsType ==
  ASSUME TypeOK, NEW d \in 0 .. MaxPass
  PROVE  /\ Remaining(d) \in 0 .. RebootDelay \cup {None}
         /\ Waits(d) => rebootIn' \in 0 .. RebootDelay \cup {None}
         /\ Arm => rebootIn' \in 0 .. RebootDelay \cup {None}
<1>1. rebootIn \in 0 .. RebootDelay \cup {None} /\ RebootDelay \in Nat /\ MaxPass \in Nat
  BY ConstantsAssumption DEF TypeOK
<1>2. Remaining(d) \in 0 .. RebootDelay \cup {None}
  BY <1>1 DEF Remaining
<1>3. Arm => rebootIn' \in {RebootDelay, 0}
  BY DEF Arm
<1> QED BY <1>1, <1>2, <1>3 DEF Waits

LEMMA RoutedType ==
  ASSUME NEW req \in Routes, NEW auth \in BOOLEAN
  PROVE  Routed(req, auth) \in Answers
BY DEF Routed, Routes, Answers

-----------------------------------------------------------------------------
(* The operations.  Step: what the refinement asks of one.                 *)

Step == Exchange!Next \/ UNCHANGED <<conn, answer>>

TypesAround ==
  /\ serverUp \in BOOLEAN /\ webOn \in BOOLEAN /\ net \in BOOLEAN
  /\ rebootIn \in 0 .. RebootDelay \cup {None}

TypesConn ==
  /\ state \in {"Idle", "ReadRequest", "ReadBody", "Respond"}
  /\ age \in 0 .. Longest + 1 /\ held \in 0 .. Longest + 1
  /\ conn \in Browsers \cup {None}
  /\ line \in Routes \cup {None} /\ authOk \in BOOLEAN
  /\ contentLen \in Nat /\ bodyLen \in Nat /\ read \in Nat
  /\ answer \in Answers \cup {None} /\ left \in 0 .. PageChunks + 1
  /\ at \in [Browsers -> {"away", "knocking", "connected", "gone"}]
  /\ sent \in Nat

LEMMA Split == TypeOK <=> TypesAround /\ TypesConn
BY DEF TypeOK, TypesAround, TypesConn

(* Everything of the invariant that an operation on the connection changes.*)
ConnInv == TypesConn /\ Resting /\ Reading /\ ReadingBody /\ Responding /\ Timed

LEMMA Whole == IInv <=> TypesAround /\ ConnInv
BY Split DEF IInv, ConnInv

LEMMA ResetKeeps ==
  ASSUME ConnInv, ResetConn
  PROVE  ConnInv' /\ Step
<1>0. /\ conn' = None /\ state' = "Idle" /\ answer' = None /\ left' = 0
      /\ line' = None /\ authOk' = FALSE /\ contentLen' = 0 /\ bodyLen' = 0 /\ read' = 0
      /\ sent' = 0 /\ age' = 0 /\ held' = 0
  BY DEF ResetConn, ClearRequest
<1>1. TypesConn'
  <2>1. at' \in [Browsers -> {"away", "knocking", "connected", "gone"}]
    BY DEF ConnInv, TypesConn, ResetConn
  <2>2. 0 \in 0 .. Longest + 1 /\ 0 \in 0 .. PageChunks + 1
    BY LongestType, ConstantsAssumption
  <2> QED BY <1>0, <2>1, <2>2 DEF TypesConn
<1>2. (Resting /\ Reading /\ ReadingBody /\ Responding)'
  BY DEF ResetConn, ClearRequest, Resting, Reading, ReadingBody, Responding
<1>3. Timed'
  BY DEF ResetConn, Timed
<1>4. Step
  <2>1. CASE conn = None
    BY <2>1 DEF ConnInv, Resting, ResetConn, Step
  <2>2. CASE conn # None
    BY <2>2 DEF ResetConn, Step, Exchange!Next, Exchange!Close
  <2> QED BY <2>1, <2>2
<1> QED BY <1>1, <1>2, <1>3, <1>4 DEF ConnInv

LEMMA ConnUnchanged ==
  ASSUME ConnInv, UNCHANGED <<state, conn, parsed, answer, left, held>>,
         at' \in [Browsers -> {"away", "knocking", "connected", "gone"}],
         sent' \in Nat, sent' >= sent,
         age' \in 0 .. Longest + 1, conn # None => age' >= age
  PROVE  ConnInv' /\ Step
<1>0. UNCHANGED <<state, conn, line, authOk, contentLen, bodyLen, read, answer, left, held>>
  BY DEF parsed
<1>1. TypesConn'
  <2>1. held' \in 0 .. Longest + 1 /\ left' \in 0 .. PageChunks + 1
    BY <1>0 DEF ConnInv, TypesConn
  <2> QED BY <1>0, <2>1 DEF ConnInv, TypesConn
<1>2. (Reading /\ ReadingBody /\ Responding)'
  BY DEF ConnInv, parsed, Reading, ReadingBody, Responding, Heads, AllHeads, Deserved, BlankAt
<1>3. Resting'
  BY DEF ConnInv, TypesConn, parsed, Resting
<1>4. Timed'
  <2>1. state # "Idle" => age' >= age
    BY DEF ConnInv, Resting
  <2>2. age \in Int /\ age' \in Int /\ held \in Int /\ Longest \in Int /\ RequestTimeout \in Int
    BY LongestType DEF ConnInv, TypesConn
  <2>3. state' = state /\ held' = held
    OBVIOUS
  <2>4. CASE state \in {"ReadRequest", "ReadBody"}
    <3>1. held <= age /\ held <= RequestTimeout /\ age' >= age
      BY <2>1, <2>4 DEF ConnInv, Timed
    <3>2. held <= age'
      BY <2>2, <3>1
    <3> QED BY <2>3, <2>4, <3>1, <3>2, Zenon DEF Timed
  <2>5. CASE state = "Respond"
    <3>1. held <= RequestTimeout + age /\ held <= Longest /\ age' >= age
      BY <2>1, <2>5 DEF ConnInv, Timed
    <3>2. held <= RequestTimeout + age'
      <4>1. \A h, a, b, r \in Int : h <= r + a /\ b >= a => h <= r + b
        OBVIOUS
      <4> QED BY <2>2, <3>1, <4>1, Zenon
    <3> QED BY <2>3, <2>5, <3>1, <3>2 DEF Timed
  <2> QED BY <2>3, <2>4, <2>5 DEF Timed
<1>5. Step
  BY DEF Step
<1> QED BY <1>1, <1>2, <1>3, <1>4, <1>5 DEF ConnInv

LEMMA IdleKeeps ==
  ASSUME ConnInv, NEW d \in 0 .. MaxPass, PollIdle(d)
  PROVE  ConnInv' /\ Step
<1>1. CASE UNCHANGED <<state, conn, parsed, at, age, held>>
  BY <1>1, ConnUnchanged DEF PollIdle, ConnInv, TypesConn
<1>2. ASSUME NEW b \in Browsers,
             conn' = b, at' = [at EXCEPT ![b] = "connected"],
             state' = "ReadRequest", age' = 0, held' = 0, ClearRequest
      PROVE  ConnInv' /\ Step
  <2>0. UNCHANGED <<answer, left, sent>> /\ state = "Idle" /\ conn = None /\ answer = None
    BY DEF PollIdle, ConnInv, Resting
  <2>1. TypesConn'
    <3>1. at' \in [Browsers -> {"away", "knocking", "connected", "gone"}]
      BY <1>2 DEF ConnInv, TypesConn
    <3>2. 0 \in 0 .. Longest + 1 /\ left' \in 0 .. PageChunks + 1
      BY <2>0, LongestType DEF ConnInv, TypesConn
    <3>3. /\ conn' = b /\ state' = "ReadRequest" /\ answer' = None /\ sent' \in Nat
          /\ line' = None /\ authOk' = FALSE /\ contentLen' = 0 /\ bodyLen' = 0 /\ read' = 0
          /\ age' = 0 /\ held' = 0
      BY <1>2, <2>0 DEF ClearRequest, ConnInv, TypesConn
    <3> QED BY <3>1, <3>2, <3>3 DEF TypesConn
  <2>2. Reading'
    <3>1. "auth" \notin Heads(b, 1, 0) /\ "length" \notin Heads(b, 1, 0) /\ 0 < BlankAt(b)
      BY HeadsNone, RequestType
    <3>2. /\ conn' = b /\ read' = 0 /\ line' = None /\ authOk' = FALSE
          /\ contentLen' = 0 /\ bodyLen' = 0 /\ answer' = None
      BY <1>2, <2>0 DEF ClearRequest
    <3> HIDE DEF Heads, BlankAt
    <3>3. Heads(conn, 1, read)' = Heads(b, 1, 0) /\ BlankAt(conn)' = BlankAt(b)
      BY <3>2 DEF Heads, BlankAt
    <3>4. (authOk <=> ("auth" \in Heads(conn, 1, read)))'
      BY <3>1, <3>2, <3>3, Zenon
    <3>5. (contentLen = IF "length" \in Heads(conn, 1, read) THEN Request[conn].length ELSE 0)'
      BY <3>1, <3>2, <3>3, Zenon
    <3>6. (read < BlankAt(conn))'
      BY <3>1, <3>2, <3>3, Zenon
    <3> QED BY <3>2, <3>4, <3>5, <3>6, Zenon DEF Reading
  <2>3. (Resting /\ ReadingBody /\ Responding)'
    BY <1>2, <2>0, ConstantsAssumption
       DEF ConnInv, TypesConn, Resting, ReadingBody, Responding, ClearRequest
  <2>4. Timed'
    BY <1>2, ConstantsAssumption DEF Timed
  <2>5. Step
    BY <1>2, <2>0 DEF Step, Exchange!Next, Exchange!Accept
  <2> QED BY <2>1, <2>2, <2>3, <2>4, <2>5 DEF ConnInv
<1> QED BY <1>1, <1>2 DEF PollIdle

(* The answer: by then everything that it depends on was read.             *)
LEMMA Answers413OrRoute ==
  ASSUME ConnInv, conn # None, conn' = conn, answer = None,
         TypesConn', NEW what, what = Deserved(conn), StartResponse(what),
         held' <= RequestTimeout, read' <= sent'
  PROVE  ConnInv' /\ Step
<1>1. state' = "Respond" /\ answer' = what /\ age' = 0
  BY DEF StartResponse
<1>2. (Reading /\ ReadingBody)'
  BY <1>1 DEF Reading, ReadingBody
<1>3. (Resting /\ Responding)'
  BY <1>1 DEF Resting, Responding, Deserved
<1>4. Timed'
  <2>1. held' \in Int /\ RequestTimeout \in Nat /\ ResponseTimeout \in Nat
    BY ConstantsAssumption DEF TypesConn
  <2> QED BY <1>1, <2>1 DEF Timed, Longest
<1>5. Step
  <2>1. conn \in Browsers
    BY DEF ConnInv, TypesConn
  <2>2. answer' = [b \in Browsers |-> Deserved(b)][conn]
    BY <1>1, <2>1
  <2> QED BY <2>2 DEF Step, Exchange!Next, Exchange!Answer
<1> QED BY <1>2, <1>3, <1>4, <1>5 DEF ConnInv

LEMMA StartResponseTypes ==
  ASSUME NEW what \in Answers, StartResponse(what)
  PROVE  /\ state' = "Respond" /\ answer' \in Answers /\ answer' = what
         /\ left' \in 0 .. PageChunks + 1
         /\ age' = 0 /\ age' \in 0 .. Longest + 1
<1>1. Chunks(what) \in {PageChunks, 1} /\ PageChunks \in Nat /\ PageChunks # 0
  BY ConstantsAssumption DEF Chunks
<1>2. 1 + Chunks(what) \in 0 .. PageChunks + 1
  BY <1>1
<1> QED BY <1>2, LongestType DEF StartResponse

(* No pass that goes on exceeds the deadline, nor does the connection.     *)
LEMMA HeldInTime ==
  ASSUME TypesConn, Timed, state # "Idle", NEW d \in 0 .. MaxPass, ~Expired(d)
  PROVE  /\ Later(held, d) \in 0 .. Longest + 1 /\ Later(age, d) \in 0 .. Longest + 1
         /\ state # "Respond" => /\ Later(held, d) <= Later(age, d)
                                /\ Later(held, d) <= RequestTimeout
         /\ state = "Respond" => /\ Later(held, d) <= RequestTimeout + Later(age, d)
                                /\ Later(held, d) <= Longest
<1>1. age \in 0 .. Longest + 1 /\ held \in 0 .. Longest + 1 /\ d \in Nat
  BY ConstantsAssumption DEF TypesConn
<1>2. /\ Later(age, d) \in 0 .. Longest + 1 /\ Later(held, d) \in 0 .. Longest + 1
      /\ Later(held, d) <= held + d
      /\ Later(age, d) <= Longest => Later(age, d) = age + d
  BY <1>1, LaterType
<1>3. CASE state # "Respond"
  <2>1. Later(age, d) <= RequestTimeout
    BY <1>2, <1>3, LongestType DEF Expired
  <2>2. held <= age
    BY <1>3 DEF Timed, TypesConn
  <2> QED BY <1>1, <1>2, <1>3, <2>1, <2>2, LongestType
<1>4. CASE state = "Respond"
  <2>1. Later(age, d) <= ResponseTimeout
    BY <1>2, <1>4, LongestType DEF Expired
  <2>2. held <= RequestTimeout + age
    BY <1>4 DEF Timed
  <2> QED BY <1>1, <1>2, <1>4, <2>1, <2>2, LongestType
<1> QED BY <1>3, <1>4

LEMMA ReadKeeps ==
  ASSUME ConnInv, NEW d \in 0 .. MaxPass, PollRead(d)
  PROVE  ConnInv' /\ Step
<1> DEFINE last == Min({sent, read + Budget, BlankAt(conn)})
           heads == Heads(conn, read + 1, last)
<1>1. /\ state = "ReadRequest" /\ ~Expired(d)
      /\ read' = last
      /\ line' = (IF last = 0 THEN None ELSE Request[conn].line)
      /\ authOk' = (authOk \/ "auth" \in heads)
      /\ contentLen' = (IF "length" \in heads THEN Request[conn].length ELSE contentLen)
      /\ bodyLen' = bodyLen
      /\ IF last = BlankAt(conn) THEN MaybeStartBody(d)
         ELSE age' = Later(age, d) /\ Waits(d) /\ UNCHANGED <<state, answer, left>>
      /\ held' = Later(held, d)
      /\ UNCHANGED <<conn, at, sent>>
  BY Zenon DEF PollRead, GoesOn, Heads
<1> DEFINE b == conn
<1>2. b \in Browsers /\ conn' = b /\ answer = None /\ conn # None
  BY <1>1 DEF ConnInv, TypesConn, Resting, Reading
<1>3. /\ read \in Nat /\ sent \in Nat /\ read <= sent /\ read < BlankAt(b)
      /\ bodyLen = 0 /\ contentLen \in Nat /\ authOk \in BOOLEAN /\ Budget \in Nat
      /\ BlankAt(b) \in Nat /\ BlankAt(b) >= 2
  BY <1>1, <1>2, RequestType, ConstantsAssumption DEF ConnInv, TypesConn, Resting, Reading
<1>4. /\ last \in Nat /\ read <= last /\ last <= sent /\ last <= BlankAt(b)
  <2> DEFINE p == read + Budget
             q == BlankAt(b)
             m == Min({sent, p, q})
  <2>1. sent \in Int /\ p \in Int /\ q \in Int /\ p >= read /\ q >= read
    BY <1>3
  <2> HIDE DEF p, q
  <2>2. m \in {sent, p, q} /\ m <= sent /\ m <= p /\ m <= q
    BY <2>1, MinOfThree, Zenon
  <2> HIDE DEF m
  <2>3. m \in Nat /\ read <= m /\ m <= sent /\ m <= q
    BY <1>3, <2>1, <2>2
  <2> QED BY <2>3 DEF m, p, q
<1>5. Heads(b, 1, last) = Heads(b, 1, read) \cup heads
  <2> HIDE DEF last
  <2> QED BY <1>2, <1>3, <1>4, HeadsAdd
<1>6. authOk' <=> ("auth" \in Heads(b, 1, last))
  <2>1. authOk <=> ("auth" \in Heads(b, 1, read))
    BY <1>1, Zenon DEF ConnInv, Reading
  <2> QED BY <1>1, <1>5, <2>1, Zenon
<1>7. contentLen' = (IF "length" \in Heads(b, 1, last) THEN Request[b].length ELSE 0)
  <2>1. contentLen = IF "length" \in Heads(b, 1, read) THEN Request[b].length ELSE 0
    BY <1>1, Zenon DEF ConnInv, Reading
  <2> HIDE DEF last, heads
  <2> QED BY <1>1, <1>5, <2>1, Zenon
<1>8. authOk' \in BOOLEAN /\ contentLen' \in Nat /\ line' \in Routes \cup {None}
  <2>1. authOk' \in BOOLEAN
    BY <1>1, <1>3, Zenon
  <2>2. contentLen' \in Nat
    BY <1>2, <1>7, RequestType, 0 \in Nat, Zenon
  <2>3. line' \in Routes \cup {None}
    BY <1>1, <1>2, RequestType
  <2> QED BY <2>1, <2>2, <2>3
<1>9. /\ held' \in 0 .. Longest + 1 /\ Later(age, d) \in 0 .. Longest + 1
      /\ held' <= Later(age, d) /\ held' <= RequestTimeout
  BY <1>1, HeldInTime DEF ConnInv
<1> HIDE DEF last, heads
<1>10. CASE last # BlankAt(b)
  <2>1. age' = Later(age, d) /\ UNCHANGED <<state, answer, left>>
    BY <1>1, <1>10, Zenon
  <2>2. TypesConn'
    BY <1>1, <1>2, <1>3, <1>4, <1>8, <1>9, <2>1 DEF ConnInv, TypesConn
  <2>3. Reading'
    <3>1. read' = last /\ last < BlankAt(b) /\ answer' = None /\ bodyLen' = 0
      BY <1>1, <1>2, <1>3, <1>4, <1>10, <2>1
    <3>3. (read < BlankAt(conn))'
      BY <1>2, <3>1, Zenon
    <3>4. (line = IF read = 0 THEN None ELSE Request[conn].line)'
      BY <1>1, <1>2, Zenon
    <3>5. (authOk <=> ("auth" \in Heads(conn, 1, read)))'
      BY <1>1, <1>2, <1>6, Zenon
    <3>6. (contentLen = IF "length" \in Heads(conn, 1, read) THEN Request[conn].length ELSE 0)'
      BY <1>1, <1>2, <1>7, Zenon
    <3> QED BY <3>1, <3>3, <3>4, <3>5, <3>6, Zenon DEF Reading
  <2>4. (Resting /\ ReadingBody /\ Responding)'
    BY <1>1, <1>2, <1>4, <2>1 DEF ConnInv, Resting, ReadingBody, Responding
  <2>5. Timed'
    BY <1>1, <1>9, <2>1 DEF Timed
  <2>6. Step
    BY <1>1, <2>1 DEF Step
  <2> QED BY <2>2, <2>3, <2>4, <2>5, <2>6 DEF ConnInv
<1>11. CASE last = BlankAt(b)
  <2>1. MaybeStartBody(d)
    BY <1>1, <1>11, Zenon
  <2>2. last # 0 /\ line' = Request[b].line /\ line' \in Routes
    BY <1>1, <1>2, <1>3, <1>11, RequestType
  <2>3. Heads(b, 1, last) = AllHeads(b)
    BY <1>2, <1>11, HeadsAll, Zenon
  <2>4. authOk' <=> ("auth" \in AllHeads(b))
    BY <1>6, <2>3, Zenon
  <2>5. contentLen' = (IF "length" \in AllHeads(b) THEN Request[b].length ELSE 0)
    BY <1>7, <2>3, Zenon
  <2>6. read' <= sent'
    BY <1>1, <1>4
  <2>7. ASSUME NEW what \in Answers, what = Deserved(b), StartResponse(what)
        PROVE  ConnInv' /\ Step
    <3>1. TypesConn'
      BY <1>1, <1>2, <1>3, <1>4, <1>8, <1>9, <2>7, StartResponseTypes DEF ConnInv, TypesConn
    <3> QED BY <1>2, <1>9, <2>6, <2>7, <3>1, Answers413OrRoute
  <2>8. CASE contentLen' = 0 /\ Route(d, line', authOk')
    <3>1. ~("length" \in AllHeads(b) /\ Request[b].length >= MaxBody)
      BY <1>2, <2>5, <2>8, RequestType
    <3>2. Routed(line', authOk') = Deserved(b)
      BY <1>2, <2>2, <2>4, <3>1, Deserving, Zenon
    <3>3. Routed(line', authOk') \in Answers
      BY <1>8, <2>2, RoutedType
    <3>4. StartResponse(Routed(line', authOk'))
      BY <2>8 DEF Route
    <3> QED BY <2>7, <3>2, <3>3, <3>4
  <2>9. CASE contentLen' # 0 /\ contentLen' >= MaxBody /\ StartResponse("413")
    <3>1. "413" = Deserved(b)
      BY <1>2, <2>5, <2>9, Deserving, Zenon
    <3> QED BY <2>7, <2>9, <3>1 DEF Answers
  <2>10. CASE /\ contentLen' # 0 /\ contentLen' < MaxBody
              /\ state' = "ReadBody" /\ EnterBody(d)
              /\ UNCHANGED <<answer, left>>
    <3>1. age' = Later(age, d)
      BY <2>10 DEF EnterBody
    <3>2. TypesConn'
      BY <1>1, <1>2, <1>3, <1>4, <1>8, <1>9, <2>10, <3>1 DEF ConnInv, TypesConn
    <3>3. "length" \in AllHeads(b) /\ contentLen' = Request[b].length
      BY <2>5, <2>10, Zenon
    <3>4. bodyLen' <= contentLen'
      BY <1>1, <1>3, <1>8
    <3>6. (authOk <=> ("auth" \in AllHeads(conn)))' /\ ("length" \in AllHeads(conn))'
          /\ (line = Request[conn].line)' /\ (contentLen = Request[conn].length)'
      BY <1>2, <2>2, <2>4, <3>3, Zenon
    <3>7. ReadingBody'
      BY <1>2, <2>10, <3>4, <3>6, Zenon DEF ReadingBody
    <3>8. (Resting /\ Reading /\ Responding)'
      BY <1>1, <1>2, <2>6, <2>10 DEF ConnInv, Resting, Reading, Responding
    <3>9. Timed'
      BY <1>9, <2>10, <3>1 DEF Timed
    <3>10. Step
      BY <1>1, <2>10 DEF Step
    <3> QED BY <3>2, <3>7, <3>8, <3>9, <3>10 DEF ConnInv
  <2> QED BY <2>1, <2>8, <2>9, <2>10 DEF MaybeStartBody
<1> QED BY <1>10, <1>11

LEMMA ReadBodyKeeps ==
  ASSUME ConnInv, NEW d \in 0 .. MaxPass, PollReadBody(d)
  PROVE  ConnInv' /\ Step
<1> DEFINE got == Min({sent - read, Budget, contentLen - bodyLen})
           b == conn
<1>1. /\ state = "ReadBody" /\ ~Expired(d)
      /\ read' = read + got /\ bodyLen' = bodyLen + got
      /\ IF bodyLen + got >= contentLen THEN Route(d, line, authOk)
         ELSE age' = Later(age, d) /\ Waits(d) /\ UNCHANGED <<state, answer, left>>
      /\ held' = Later(held, d)
      /\ UNCHANGED <<line, authOk, contentLen, conn, at, sent>>
  BY Zenon DEF PollReadBody, GoesOn
<1>2. b \in Browsers /\ conn' = b /\ answer = None /\ conn # None
  BY <1>1 DEF ConnInv, TypesConn, Resting, ReadingBody
<1>3. /\ line = Request[b].line
      /\ authOk <=> ("auth" \in AllHeads(b))
      /\ "length" \in AllHeads(b) /\ contentLen = Request[b].length
      /\ contentLen < MaxBody /\ bodyLen <= contentLen
  BY <1>1, Zenon DEF ConnInv, ReadingBody
<1>4. /\ read \in Nat /\ sent \in Nat /\ read <= sent /\ bodyLen \in Nat
      /\ contentLen \in Nat /\ Budget \in Nat
  BY ConstantsAssumption DEF ConnInv, TypesConn, Resting
<1>5. got \in Nat /\ read + got <= sent /\ bodyLen + got <= contentLen
  <2> DEFINE p == sent - read
             q == contentLen - bodyLen
             m == Min({p, Budget, q})
  <2>1. p \in Nat /\ q \in Nat /\ p \in Int /\ q \in Int /\ Budget \in Int
    BY <1>3, <1>4
  <2>2. \A k \in Int : (k <= p => read + k <= sent) /\ (k <= q => bodyLen + k <= contentLen)
    BY <1>4
  <2> HIDE DEF p, q
  <2>3. m \in {p, Budget, q} /\ m <= p /\ m <= q
    BY <2>1, MinOfThree, Zenon
  <2> HIDE DEF m
  <2>4. m \in Nat
    BY <1>4, <2>1, <2>3
  <2>5. m \in Nat /\ read + m <= sent /\ bodyLen + m <= contentLen
    BY <2>2, <2>3, <2>4
  <2> QED BY <2>5, Zenon DEF m, p, q
<1>6. /\ held' \in 0 .. Longest + 1 /\ Later(age, d) \in 0 .. Longest + 1
      /\ held' <= Later(age, d) /\ held' <= RequestTimeout
  BY <1>1, HeldInTime DEF ConnInv
<1>7. line \in Routes /\ authOk \in BOOLEAN
  BY <1>2, <1>3, RequestType DEF ConnInv, TypesConn
<1>8. read' \in Nat /\ bodyLen' \in Nat /\ read' <= sent'
  <2> HIDE DEF got
  <2> QED BY <1>1, <1>4, <1>5
<1> HIDE DEF got
<1>9. CASE bodyLen + got >= contentLen
  <2>1. StartResponse(Routed(line, authOk))
    BY <1>1, <1>9 DEF Route
  <2>2. Routed(line, authOk) \in Answers
    BY <1>7, RoutedType
  <2>3. ~(Request[b].length >= MaxBody)
    BY <1>3, <1>4, ConstantsAssumption
  <2>4. Routed(line, authOk) = Deserved(b)
    BY <1>2, <1>3, <2>3, Deserving, Zenon
  <2>5. TypesConn'
    BY <1>1, <1>2, <1>4, <1>6, <1>7, <1>8, <2>1, <2>2, StartResponseTypes DEF ConnInv, TypesConn
  <2> QED BY <1>2, <1>6, <1>8, <2>1, <2>4, <2>5, Answers413OrRoute
<1>10. CASE ~(bodyLen + got >= contentLen)
  <2>1. age' = Later(age, d) /\ UNCHANGED <<state, answer, left>>
    BY <1>1, <1>10, Zenon
  <2>2. TypesConn'
    BY <1>1, <1>2, <1>4, <1>6, <1>7, <1>8, <2>1 DEF ConnInv, TypesConn
  <2>3. ReadingBody'
    <3>2. bodyLen' <= contentLen'
      BY <1>1, <1>5
    <3> QED BY <1>1, <1>2, <1>3, <2>1, <3>2, Zenon DEF ReadingBody
  <2>4. (Resting /\ Reading /\ Responding)'
    BY <1>1, <1>2, <1>8, <2>1 DEF ConnInv, Resting, Reading, Responding
  <2>5. Timed'
    BY <1>1, <1>6, <2>1 DEF Timed
  <2>6. Step
    BY <1>1, <2>1 DEF Step
  <2> QED BY <2>2, <2>3, <2>4, <2>5, <2>6 DEF ConnInv
<1> QED BY <1>9, <1>10

LEMMA RespondKeeps ==
  ASSUME ConnInv, NEW d \in 0 .. MaxPass, state = "Respond", PollRespond(d)
  PROVE  ConnInv' /\ Step
<1>1. CASE ResetConn
  BY <1>1, ResetKeeps
<1>2. CASE /\ left > 0 /\ left' \in {left, left - 1}
           /\ age' = Later(age, d) /\ held' = Later(held, d)
           /\ UNCHANGED <<conn, state, answer, parsed, at, sent>>
  <2>1. ~Expired(d)
    BY DEF PollRespond, GoesOn
  <2>2. /\ held' \in 0 .. Longest + 1 /\ age' \in 0 .. Longest + 1
        /\ held' <= RequestTimeout + age' /\ held' <= Longest
    BY <1>2, <2>1, HeldInTime DEF ConnInv
  <2>3. UNCHANGED <<conn, state, answer, line, authOk, contentLen, bodyLen, read, at, sent>>
    BY <1>2 DEF parsed
  <2>4. left' \in 0 .. PageChunks + 1
    BY <1>2, ConstantsAssumption DEF ConnInv, TypesConn
  <2>5. TypesConn'
    BY <2>2, <2>3, <2>4 DEF ConnInv, TypesConn
  <2>6. (Resting /\ Reading /\ ReadingBody)'
    BY <2>3 DEF ConnInv, Resting, Reading, ReadingBody
  <2>7. Responding'
    BY <2>3 DEF ConnInv, Responding, Deserved
  <2>8. Timed'
    BY <2>2, <2>3 DEF Timed
  <2>9. Step
    BY <2>3 DEF Step
  <2> QED BY <2>5, <2>6, <2>7, <2>8, <2>9 DEF ConnInv
<1> QED BY <1>1, <1>2 DEF PollRespond

LEMMA PollKeeps ==
  ASSUME IInv, NEW d \in 0 .. MaxPass, Poll(d)
  PROVE  IInv' /\ Step
<1>0. ConnInv /\ TypesAround
  BY Whole
<1>1. ASSUME ConnInv' /\ Step,
             serverUp' \in BOOLEAN, webOn' \in BOOLEAN, net' \in BOOLEAN,
             rebootIn' \in 0 .. RebootDelay \cup {None}
      PROVE  IInv' /\ Step
  <2>1. TypesAround'
    BY <1>1 DEF TypesAround
  <2> QED BY <1>1, <2>1, Whole, PTL
<1>2. Waits(d) => rebootIn' \in 0 .. RebootDelay \cup {None}
  BY WaitsType DEF IInv
<1>3. CASE PollOff(d)
  <2>1. conn # None => age' >= age
    BY <1>0, <1>3, LaterType DEF PollOff, ConnInv, TypesConn
  <2>2. age' \in 0 .. Longest + 1
    BY <1>0, <1>3, LaterType DEF PollOff, ConnInv, TypesConn
  <2>3. ConnInv' /\ Step
    BY <1>0, <1>3, <2>1, <2>2, ConnUnchanged DEF PollOff, ConnInv, TypesConn
  <2> QED BY <1>0, <1>1, <1>2, <1>3, <2>3 DEF PollOff, TypesAround, rest
<1>4. CASE PollReboot(d)
  <2>1. ConnInv' /\ Step
    BY <1>0, <1>4, ConnUnchanged DEF PollReboot, ConnInv, TypesConn
  <2> QED BY <1>0, <1>1, <1>4, <2>1 DEF PollReboot, TypesAround
<1>5. CASE PollNetDown(d)
  <2>1. ConnInv' /\ Step
    <3>1. CASE serverUp
      BY <1>0, <1>5, <3>1, ResetKeeps DEF PollNetDown
    <3>2. CASE ~serverUp
      BY <1>0, <1>5, <3>2, ConnUnchanged DEF PollNetDown, ConnInv, TypesConn
    <3> QED BY <3>1, <3>2
  <2> QED BY <1>0, <1>1, <1>2, <1>5, <2>1 DEF PollNetDown, TypesAround, rest
<1>6. CASE PollConn(d)
  <2>1. serverUp' \in BOOLEAN /\ UNCHANGED <<webOn, net>>
    BY <1>6 DEF PollConn, rest
  <2>2. CASE PollIdle(d)
    BY <1>0, <1>1, <1>2, <2>1, <2>2, IdleKeeps DEF PollIdle, TypesAround
  <2>3. CASE GivesUp(d)
    BY <1>0, <1>1, <1>2, <2>1, <2>3, ResetKeeps DEF GivesUp, TypesAround
  <2>4. CASE PollRead(d)
    <3>1. ConnInv' /\ Step
      BY <1>0, <2>4, ReadKeeps
    <3>2. Waits(d) \/ Arm
      BY <2>4 DEF PollRead, MaybeStartBody, Route
    <3> QED BY <1>0, <1>1, <1>2, <2>1, <3>1, <3>2, WaitsType DEF IInv, TypesAround
  <2>5. CASE PollReadBody(d)
    <3>1. ConnInv' /\ Step
      BY <1>0, <2>5, ReadBodyKeeps
    <3>2. Waits(d) \/ Arm
      BY <2>5 DEF PollReadBody, Route
    <3> QED BY <1>0, <1>1, <1>2, <2>1, <3>1, <3>2, WaitsType DEF IInv, TypesAround
  <2>6. CASE PollRespond(d)
    <3>1. state = "Respond"
      BY <2>6 DEF PollRespond
    <3> QED BY <1>0, <1>1, <1>2, <2>1, <2>6, <3>1, RespondKeeps DEF PollRespond, TypesAround
  <2> QED BY <1>6, <2>2, <2>3, <2>4, <2>5, <2>6 DEF PollConn
<1> QED BY <1>3, <1>4, <1>5, <1>6 DEF Poll

-----------------------------------------------------------------------------
(* The world around the server changes neither answer nor connection.      *)

LEMMA WorldKeeps ==
  ASSUME IInv, World
  PROVE  IInv' /\ Step
<1>0. ConnInv /\ TypesAround
  BY Whole
<1>1. UNCHANGED server /\ UNCHANGED held
  BY DEF World, Knocks, Leaves, Sends, NetGoes, NetComes, SerialSet, ApButton, Wrap
<1>2. UNCHANGED <<state, conn, parsed, answer, left, held, age, serverUp>>
  BY <1>1 DEF server
<1>3. at' \in [Browsers -> {"away", "knocking", "connected", "gone"}]
  BY <1>0 DEF ConnInv, TypesConn, World, Knocks, Leaves, Sends, NetGoes, NetComes,
              SerialSet, ApButton, Wrap
<1>4. sent' \in Nat /\ sent' >= sent
  <2>1. sent \in Nat
    BY <1>0 DEF ConnInv, TypesConn
  <2>2. sent' = sent \/ sent' = sent + 1
    BY DEF World, Knocks, Leaves, Sends, NetGoes, NetComes, SerialSet, ApButton, Wrap
  <2> QED BY <2>1, <2>2
<1>5. ConnInv' /\ Step
  BY <1>0, <1>2, <1>3, <1>4, ConnUnchanged DEF ConnInv, TypesConn
<1>6. TypesAround'
  <2>1. webOn' \in BOOLEAN /\ net' \in BOOLEAN
    BY <1>0 DEF TypesAround, rest, World, Knocks, Leaves, Sends, NetGoes, NetComes,
                SerialSet, ApButton, Wrap
  <2>2. rebootIn' \in 0 .. RebootDelay \cup {None}
    <3>1. rebootIn' = rebootIn \/ rebootIn' = RebootDelay \/ Arm
      BY DEF World, Knocks, Leaves, Sends, NetGoes, NetComes, SerialSet, ApButton, Wrap
    <3>2. RebootDelay \in 0 .. RebootDelay /\ 0 \in 0 .. MaxPass
      BY ConstantsAssumption
    <3> QED BY <1>0, <3>1, <3>2, WaitsType DEF IInv, TypesAround
  <2> QED BY <1>0, <1>2, <2>1, <2>2 DEF TypesAround
<1> QED BY <1>5, <1>6, Whole, PTL

LEMMA StutterKeeps ==
  ASSUME IInv, UNCHANGED vars
  PROVE  IInv' /\ Step
<1>0. ConnInv /\ TypesAround
  BY Whole
<1>1. UNCHANGED <<state, age, serverUp, conn, parsed, answer, left, rebootIn, webOn, net,
                  at, sent, held>>
  BY DEF vars, rest
<1>2. ConnInv' /\ Step
  BY <1>0, <1>1, ConnUnchanged DEF ConnInv, TypesConn
<1>3. TypesAround'
  BY <1>0, <1>1 DEF TypesAround
<1> QED BY <1>2, <1>3, Whole, PTL

LEMMA NextKeeps ==
  ASSUME IInv, [Next]_vars
  PROVE  IInv' /\ Step
BY PollKeeps, WorldKeeps, StutterKeeps DEF Next

LEMMA InitGood == Init => IInv
<1> SUFFICES ASSUME Init PROVE IInv
  OBVIOUS
<1>1. TypeOK
  <2>1. 0 \in 0 .. Longest + 1 /\ 0 \in 0 .. PageChunks + 1
    BY ConstantsAssumption, LongestType
  <2>2. at \in [Browsers -> {"away", "knocking", "connected", "gone"}]
    BY DEF Init
  <2> QED BY <2>1, <2>2 DEF Init, TypeOK
<1>2. Resting /\ Reading /\ ReadingBody /\ Responding /\ Timed
  BY DEF Init, Resting, Reading, ReadingBody, Responding, Timed
<1> QED BY <1>1, <1>2 DEF IInv

LEMMA Inductive == Spec => []IInv
<1>1. IInv /\ [Next]_vars => IInv'
  BY NextKeeps
<1> QED BY InitGood, <1>1, PTL DEF Spec

(* Every variable has its type: no counter or index of a request leaves    *)
(* its range (web_config.cpp, the scratch of a request).                   *)
THEOREM TypeCorrect == Spec => []TypeOK
<1>1. IInv => TypeOK
  BY DEF IInv
<1> QED BY <1>1, Inductive, PTL

(* The deadlines of pollRead, pollReadBody and pollRespond bound how long  *)
(* one browser has the server, whatever it sends and however late.         *)
THEOREM BoundedHoldHolds == Spec => []BoundedHold
<1>1. IInv => BoundedHold
  <2> SUFFICES ASSUME IInv PROVE BoundedHold
    OBVIOUS
  <2>1. held \in Int
    BY DEF IInv, TypeOK
  <2>2. CASE state = "Idle"
    BY <2>2, LongestType DEF IInv, Resting, BoundedHold
  <2>3. CASE state \in {"ReadRequest", "ReadBody"}
    BY <2>1, <2>3, LongestType DEF IInv, Timed, BoundedHold
  <2>4. CASE state = "Respond"
    BY <2>4, LongestType DEF IInv, Timed, BoundedHold
  <2> QED BY <2>2, <2>3, <2>4 DEF IInv, TypeOK
<1> QED BY <1>1, Inductive, PTL

(* The server implements HttpExchange: every connection is answered at     *)
(* most once, and with what its own request deserves.                      *)
THEOREM ExchangeHolds == Spec => ExchangeKept
<1>1. Init => Exchange!Init
  BY DEF Init, Exchange!Init
<1>2. IInv /\ [Next]_vars => [Exchange!Next]_<<conn, answer>>
  BY NextKeeps DEF Step
<1> QED BY <1>1, <1>2, Inductive, PTL DEF Spec, ExchangeKept, Exchange!Spec

-----------------------------------------------------------------------------
(* The reboot that is waited for.                                          *)

(* What a pass may do to the time that remains.                            *)
RunsDown == rebootIn # None /\ rebootIn' # None => Rearms \/ Wrap \/ rebootIn' <= rebootIn
NobodyElse == rebootIn = 0 => conn' \in {conn, None}

LEMMA WaitingRunsDown ==
  ASSUME TypeOK, NEW d \in 0 .. MaxPass, Waits(d)
  PROVE  RunsDown
<1> SUFFICES ASSUME rebootIn # None PROVE rebootIn' <= rebootIn
  BY DEF RunsDown
<1>1. rebootIn \in Nat /\ d \in Nat
  BY ConstantsAssumption DEF TypeOK
<1>2. rebootIn' = IF rebootIn > d THEN rebootIn - d ELSE 0
  BY DEF Waits, Remaining
<1> QED BY <1>1, <1>2

(* An answer that arms the reboot is one that was not given before.        *)
LEMMA RoutingRearms ==
  ASSUME TypeOK, answer = None, NEW d \in 0 .. MaxPass, NEW req, NEW auth, Route(d, req, auth)
  PROVE  RunsDown
<1>1. CASE Routed(req, auth) = "reboot"
  <2>1. answer' = "reboot"
    BY <1>1 DEF Route, StartResponse
  <2>2. answer # "reboot"
    BY ConstantsAssumption DEF Answers, Routes
  <2> QED BY <2>1, <2>2 DEF RunsDown, Rearms
<1>2. CASE Routed(req, auth) # "reboot"
  <2>1. Waits(d)
    BY <1>2 DEF Route
  <2> QED BY <2>1, WaitingRunsDown
<1> QED BY <1>1, <1>2

LEMMA NothingRemains ==
  ASSUME rebootIn = 0, NEW d \in 0 .. MaxPass
  PROVE  Remaining(d) = 0
<1>1. d \in Nat /\ None # 0
  BY ConstantsAssumption
<1> QED BY <1>1 DEF Remaining

(* Each kind of pass.  Once the time is up, none finds the server idle but *)
(* the one that reboots.                                                   *)
LEMMA PollDefersNothing ==
  ASSUME IInv, NEW d \in 0 .. MaxPass, Poll(d)
  PROVE  RunsDown /\ NobodyElse
<1>0. TypeOK /\ Reading /\ ReadingBody
  BY DEF IInv
<1>1. CASE PollOff(d)
  <2>1. Waits(d) /\ conn' = conn
    BY <1>1 DEF PollOff
  <2> QED BY <1>0, <2>1, WaitingRunsDown DEF NobodyElse
<1>2. CASE PollReboot(d)
  BY <1>2 DEF PollReboot, RunsDown, NobodyElse
<1>3. CASE PollNetDown(d)
  <2>1. Waits(d) /\ conn' \in {conn, None}
    BY <1>3 DEF PollNetDown, ResetConn
  <2> QED BY <1>0, <2>1, WaitingRunsDown DEF NobodyElse
<1>4. CASE PollConn(d)
  <2>1. CASE PollIdle(d)
    <3>1. rebootIn # 0
      BY <1>4, <2>1, NothingRemains DEF PollConn, Serves, RebootDue, PollIdle
    <3>2. Waits(d)
      BY <2>1 DEF PollIdle
    <3> QED BY <1>0, <3>1, <3>2, WaitingRunsDown DEF NobodyElse
  <2>2. CASE GivesUp(d)
    <3>1. Waits(d) /\ conn' = None
      BY <2>2 DEF GivesUp, ResetConn
    <3> QED BY <1>0, <3>1, WaitingRunsDown DEF NobodyElse
  <2>3. CASE PollRead(d)
    <3>1. state = "ReadRequest" /\ conn' = conn
      BY <2>3 DEF PollRead
    <3>2. answer = None
      BY <1>0, <3>1 DEF Reading
    <3>3. Waits(d) \/ Route(d, line', authOk')
      BY <2>3 DEF PollRead, MaybeStartBody
    <3> QED BY <1>0, <3>1, <3>2, <3>3, WaitingRunsDown, RoutingRearms DEF NobodyElse
  <2>4. CASE PollReadBody(d)
    <3>1. state = "ReadBody" /\ conn' = conn
      BY <2>4 DEF PollReadBody
    <3>2. answer = None
      BY <1>0, <3>1 DEF ReadingBody
    <3>3. Waits(d) \/ Route(d, line, authOk)
      BY <2>4 DEF PollReadBody
    <3> QED BY <1>0, <3>1, <3>2, <3>3, WaitingRunsDown, RoutingRearms DEF NobodyElse
  <2>5. CASE PollRespond(d)
    <3>1. Waits(d) /\ conn' \in {conn, None}
      BY <2>5 DEF PollRespond, ResetConn
    <3> QED BY <1>0, <3>1, WaitingRunsDown DEF NobodyElse
  <2> QED BY <1>4, <2>1, <2>2, <2>3, <2>4, <2>5 DEF PollConn
<1> QED BY <1>1, <1>2, <1>3, <1>4 DEF Poll

LEMMA WorldDefersNothing ==
  ASSUME TypeOK, World
  PROVE  RunsDown /\ NobodyElse
<1>1. conn' = conn
  BY DEF World, Knocks, Leaves, Sends, NetGoes, NetComes, SerialSet, ApButton, Wrap, server
<1>2. rebootIn' = rebootIn \/ ApButton \/ Wrap
  BY DEF World, Knocks, Leaves, Sends, NetGoes, NetComes, SerialSet
<1>3. rebootIn # None => rebootIn \in Nat
  BY DEF TypeOK
<1>4. rebootIn # None => rebootIn <= rebootIn
  BY <1>3
<1> QED BY <1>1, <1>2, <1>4, Zenon DEF RunsDown, NobodyElse, Rearms

(* rebootAtMs is only ever brought nearer, but by a new request or the     *)
(* wrap of millis(); and once it is past, webConfigPoll() accepts nobody   *)
(* before NVIC_SystemReset(): the state it waits for is "Idle", which the  *)
(* connection at hand reaches within BoundedHold.                          *)
THEOREM RebootIsNextHolds == Spec => RebootIsNext
<1> DEFINE A == /\ rebootIn # None /\ rebootIn' # None => Rearms \/ Wrap \/ rebootIn' <= rebootIn
                /\ rebootIn = 0 => conn' \in {conn, None}
<1>1. IInv /\ Next => A
  BY PollDefersNothing, WorldDefersNothing DEF Next, IInv, RunsDown, NobodyElse
<1>2. IInv /\ [Next]_vars => [A]_vars
  BY <1>1
<1> QED BY <1>2, Inductive, PTL DEF Spec, RebootIsNext

=============================================================================
