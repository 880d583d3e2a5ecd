------------------------------ MODULE WebServer ------------------------------
(***************************************************************************)
(* The HTTP server of web_config.cpp: one connection at a time, read and   *)
(* answered a bounded piece per pass of the superloop, under two deadlines;*)
(* and the pending reboot, which waits for an answer to be out.            *)
(*                                                                         *)
(* A request is a request line, headers, an empty line and a body; it      *)
(* arrives and is read line by line and byte by byte, in any portions.     *)
(* A poll begins with the time the rest of the superloop took.             *)
(***************************************************************************)
EXTENDS Integers, Sequences, FiniteSetsExt

CONSTANTS
  Browsers, None,
  Request,          \* [Browsers -> what it sends], see Requests
  MaxBody,          \* sizeof(body)
  PageChunks,       \* writes that the page takes, after the head
  Budget,           \* lines or bytes read in a pass
  RequestTimeout, ResponseTimeout,
  RebootDelay,
  MaxPass           \* bound: the longest pass of the superloop

(* line is the answer of an authorized request, "404" if it has no space.  *)
Routes   == {"page", "json", "reboot", "404"}
Headers  == {"auth", "length", "other"}     \* auth: with the right password
Requests == [line : Routes, headers : Seq(Headers), length : Nat \ {0}, body : Nat]
Answers  == Routes \cup {"401", "413"}

ASSUME ConstantsAssumption ==
  /\ None \notin Browsers \cup Answers
  /\ Request \in [Browsers -> Requests]
  /\ MaxBody \in Nat /\ PageChunks \in Nat \ {0} /\ Budget \in Nat \ {0}
  /\ RequestTimeout \in Nat /\ ResponseTimeout \in Nat
  /\ RebootDelay \in Nat /\ MaxPass \in Nat \ {0} /\ None \notin Int

VARIABLES
  (* web_config.cpp *)
  state,        \* HttpState
  age,          \* millis() - stateEnteredMs
  serverUp,
  conn,         \* the browser at the other end of conn, or None
  line,         \* reqLine, None unless reqLineDone
  authOk, contentLen, bodyLen,
  answer,       \* what the response says, None before there is one
  left,         \* writes that remain of it
  rebootIn,     \* time until millis() is past rebootAtMs; None if that is 0
  (* around it *)
  webOn,        \* g_settings.webEnable
  net,          \* netUp; in AP mode it never goes down
  at,           \* of each browser: "away", "knocking", "connected", "gone"
  sent,         \* lines and bytes of conn's request that have arrived
  read,         \* ... and that were read
  (* history *)
  held          \* how long the connection has been served, the page on

parsed  == <<line, authOk, contentLen, bodyLen, read>>
rest    == <<webOn, net>>
vars    == <<state, age, serverUp, conn, parsed, answer, left, rebootIn, rest, at, sent, held>>

BlankAt(b) == Len(Request[b].headers) + 2
Total(b)   == BlankAt(b) + Request[b].body
Longest    == RequestTimeout + ResponseTimeout

Capped(t, cap) == IF t > cap THEN cap ELSE t

TypeOK ==
  /\ state \in {"Idle", "ReadRequest", "ReadBody", "Respond"}
  /\ age \in 0 .. Longest + 1 /\ held \in 0 .. Longest + 1
  /\ serverUp \in BOOLEAN /\ webOn \in BOOLEAN /\ net \in BOOLEAN
  /\ conn \in Browsers \cup {None}
  /\ line \in Routes \cup {None} /\ authOk \in BOOLEAN
  /\ contentLen \in Nat /\ bodyLen \in Nat /\ read \in Nat
  /\ answer \in Answers \cup {None} /\ left \in 0 .. PageChunks + 1
  /\ rebootIn \in 0 .. RebootDelay \cup {None}
  /\ at \in [Browsers -> {"away", "knocking", "connected", "gone"}]
  /\ sent \in Nat

Init ==
  /\ state = "Idle" /\ age = 0 /\ serverUp = FALSE /\ conn = None
  /\ line = None /\ authOk = FALSE /\ contentLen = 0 /\ bodyLen = 0 /\ read = 0
  /\ answer = None /\ left = 0 /\ rebootIn = None
  /\ webOn = TRUE /\ net = FALSE
  /\ at = [b \in Browsers |-> "away"] /\ sent = 0
  /\ held = 0

-----------------------------------------------------------------------------
(* The response.                                                           *)

FaultHeadTwice(what) == 1 + (IF what = "page" THEN PageChunks ELSE 1)

Chunks(what) == IF what = "page" THEN PageChunks ELSE 1

(* startResponse(): head and body.                                         *)
StartResponse(what) ==
  /\ answer' = what /\ left' = 1 + Chunks(what)
  /\ state' = "Respond" /\ age' = 0

(* route(): a line without a space is answered before the password is.     *)
Routed(req, auth) == IF req = "404" THEN "404" ELSE IF auth THEN req ELSE "401"

(* rebootAtMs = millis() + ...  Across the wrap the sum is small, and      *)
(* millis() is past it at once.                                            *)
Arm == rebootIn' \in {RebootDelay, 0}

Remaining(d) == IF rebootIn = None THEN None ELSE IF rebootIn > d THEN rebootIn - d ELSE 0
Waits(d)     == rebootIn' = Remaining(d)

(* The reboot lets the response drain first.                               *)
Route(d, req, auth) ==
  /\ StartResponse(Routed(req, auth))
  /\ IF Routed(req, auth) = "reboot" THEN Arm ELSE Waits(d)

FaultKeepAuth ==
  /\ line' = None /\ UNCHANGED authOk /\ contentLen' = 0 /\ bodyLen' = 0 /\ read' = 0

(* What resetConn() and pollIdle() both clear.                             *)
ClearRequest ==
  /\ line' = None /\ authOk' = FALSE /\ contentLen' = 0 /\ bodyLen' = 0 /\ read' = 0

(* resetConn().                                                            *)
ResetConn ==
  /\ conn' = None /\ state' = "Idle" /\ answer' = None /\ left' = 0
  /\ ClearRequest
  /\ at' = [b \in Browsers |-> IF b = conn THEN "away" ELSE at[b]]
  /\ sent' = 0 /\ age' = 0 /\ held' = 0

-----------------------------------------------------------------------------
(* webConfigPoll(), after d of the superloop.                              *)

Later(t, d) == Capped(t + d, Longest + 1)

RebootDue(d) == Remaining(d) = 0 /\ state = "Idle"

(* The page is switched off.                                               *)
PollOff(d) ==
  /\ ~webOn
  /\ age' = IF conn = None THEN 0 ELSE Later(age, d)
  /\ Waits(d)
  /\ UNCHANGED <<state, serverUp, conn, parsed, answer, left, rest, at, sent, held>>

(* NVIC_SystemReset(), and the boot after it.                              *)
PollReboot(d) ==
  /\ webOn /\ RebootDue(d)
  /\ rebootIn' = None /\ serverUp' = FALSE /\ net' = FALSE
  /\ at' = [b \in Browsers |-> "away"]
  /\ UNCHANGED <<state, age, conn, parsed, answer, left, webOn, sent, held>>

Serves(d) == webOn /\ ~RebootDue(d)

PollNetDown(d) ==
  /\ Serves(d) /\ ~net
  /\ IF serverUp THEN serverUp' = FALSE /\ ResetConn
     ELSE UNCHANGED <<serverUp, conn, state, answer, left, parsed, at, sent, age, held>>
  /\ Waits(d)
  /\ UNCHANGED rest

(* pollIdle().                                                             *)
PollIdle(d) ==
  /\ state = "Idle"
  /\ \/ /\ \A b \in Browsers : at[b] # "knocking"
        /\ UNCHANGED <<state, conn, parsed, at, age, held>>
     \/ \E b \in Browsers :
          /\ at[b] = "knocking"
          /\ conn' = b /\ at' = [at EXCEPT ![b] = "connected"]
          /\ state' = "ReadRequest" /\ age' = 0 /\ held' = 0
          /\ ClearRequest
  /\ Waits(d)
  /\ UNCHANGED <<answer, left, sent>>

FaultTrustReader(d) == state = "Respond" /\ Later(age, d) > ResponseTimeout

Expired(d) == Later(age, d) > IF state = "Respond" THEN ResponseTimeout ELSE RequestTimeout

(* !conn.connected(), or the deadline.                                     *)
GivesUp(d) ==
  /\ at[conn] = "gone" \/ Expired(d)
  /\ ResetConn
  /\ Waits(d)

GoesOn(d) == at[conn] # "gone" /\ ~Expired(d)

FaultFreshBody(d) == age' = 0

(* stateEnteredMs is that of the request line until the answer.            *)
EnterBody(d) == age' = Later(age, d)

(* maybeStartBody(), with what was just read.                              *)
MaybeStartBody(d) ==
  \/ /\ contentLen' = 0
     /\ Route(d, line', authOk')
  \/ /\ contentLen' # 0 /\ contentLen' >= MaxBody
     /\ StartResponse("413") /\ Waits(d)
  \/ /\ contentLen' # 0 /\ contentLen' < MaxBody
     /\ state' = "ReadBody" /\ EnterBody(d)
     /\ Waits(d)
     /\ UNCHANGED <<answer, left>>

(* pollRead(): no further than the empty line.                             *)
PollRead(d) ==
  /\ state = "ReadRequest" /\ GoesOn(d)
  /\ LET last == Min({sent, read + Budget, BlankAt(conn)})
         heads == {Request[conn].headers[i - 1] : i \in (read + 1 .. last) \cap (2 .. BlankAt(conn) - 1)}
     IN /\ read' = last
        /\ line' = IF last = 0 THEN None ELSE Request[conn].line
        /\ authOk' = (authOk \/ "auth" \in heads)
        /\ contentLen' = IF "length" \in heads THEN Request[conn].length ELSE contentLen
        /\ bodyLen' = bodyLen
        /\ IF last = BlankAt(conn) THEN MaybeStartBody(d)
           ELSE /\ age' = Later(age, d)
                /\ Waits(d)
                /\ UNCHANGED <<state, answer, left>>
  /\ held' = Later(held, d)
  /\ UNCHANGED <<conn, at, sent>>

(* pollReadBody().                                                         *)
PollReadBody(d) ==
  /\ state = "ReadBody" /\ GoesOn(d)
  /\ LET got == Min({sent - read, Budget, contentLen - bodyLen})
     IN /\ read' = read + got /\ bodyLen' = bodyLen + got
        /\ IF bodyLen + got >= contentLen THEN Route(d, line, authOk)
           ELSE /\ age' = Later(age, d)
                /\ Waits(d)
                /\ UNCHANGED <<state, answer, left>>
  /\ held' = Later(held, d)
  /\ UNCHANGED <<line, authOk, contentLen, conn, at, sent>>

(* pollRespond(): a write, which may come to nothing; after the last one   *)
(* the connection is closed.                                               *)
PollRespond(d) ==
  /\ state = "Respond" /\ GoesOn(d)
  /\ \/ /\ left > 0 /\ left' \in {left, left - 1}
        /\ age' = Later(age, d) /\ held' = Later(held, d)
        /\ UNCHANGED <<conn, state, answer, parsed, at, sent>>
     \/ left = 0 /\ ResetConn
  /\ Waits(d)

PollConn(d) ==
  /\ Serves(d) /\ net /\ serverUp' = TRUE
  /\ \/ PollIdle(d)
     \/ state # "Idle" /\ GivesUp(d)
     \/ PollRead(d) \/ PollReadBody(d) \/ PollRespond(d)
  /\ UNCHANGED rest

Poll(d) == PollOff(d) \/ PollReboot(d) \/ PollNetDown(d) \/ PollConn(d)

-----------------------------------------------------------------------------
(* Browsers, the network, and the other users.                             *)

server == <<state, age, serverUp, conn, parsed, answer, left>>

Knocks(b) ==
  /\ net /\ serverUp /\ at[b] = "away"
  /\ at' = [at EXCEPT ![b] = "knocking"]
  /\ UNCHANGED <<server, rebootIn, rest, sent, held>>

(* What is sent before the connection is accepted is read no earlier.      *)
Sends ==
  /\ conn # None /\ at[conn] = "connected" /\ sent < Total(conn)
  /\ sent' = sent + 1
  /\ UNCHANGED <<server, rebootIn, rest, at, held>>

(* The tab is closed, or the browser loses patience.                       *)
Leaves(b) ==
  /\ \/ at[b] = "connected" /\ at' = [at EXCEPT ![b] = "gone"]
     \/ at[b] = "knocking" /\ at' = [at EXCEPT ![b] = "away"]
  /\ UNCHANGED <<server, rebootIn, rest, sent, held>>

NetGoes ==
  /\ net /\ net' = FALSE
  /\ at' = [b \in Browsers |-> IF b = conn THEN "gone" ELSE "away"]
  /\ UNCHANGED <<server, rebootIn, webOn, sent, held>>

NetComes ==
  /\ ~net /\ net' = TRUE
  /\ UNCHANGED <<server, rebootIn, webOn, at, sent, held>>

(* "webenable" of the serial menu.                                         *)
SerialSet ==
  /\ webOn' = ~webOn
  /\ UNCHANGED <<server, rebootIn, net, at, sent, held>>

(* webConfigRequestApMode().                                               *)
ApButton ==
  /\ Arm
  /\ UNCHANGED <<server, rest, at, sent, held>>

(* Every 49.7 days millis() is 0 again, below the absolute rebootAtMs: a   *)
(* reboot that was due no longer is, until millis() is past it once more,  *)
(* which may be moments before the next wrap.                              *)
Wrap ==
  /\ rebootIn # None /\ rebootIn' = RebootDelay
  /\ UNCHANGED <<server, rest, at, sent, held>>

World == \/ \E b \in Browsers : Knocks(b) \/ Leaves(b)
         \/ Sends \/ NetGoes \/ NetComes \/ SerialSet \/ ApButton \/ Wrap

Next == (\E d \in 0 .. MaxPass : Poll(d)) \/ World

(* The superloop polls, and time goes by.                                  *)
Fairness == WF_vars(\E d \in 1 .. MaxPass : Poll(d))

Spec == Init /\ [][Next]_vars /\ Fairness

-----------------------------------------------------------------------------
(* The answer a request deserves, all of it before the empty line counted. *)
Deserved(b) ==
  LET heads == {Request[b].headers[i] : i \in 1 .. Len(Request[b].headers)}
  IN IF "length" \in heads /\ Request[b].length >= MaxBody THEN "413"
     ELSE Routed(Request[b].line, "auth" \in heads)

(* However a request arrives and is read, and whatever request or deadline *)
(* went before it, each browser in turn is answered at most once, and as   *)
(* its own request deserves: with its own password, length and route.      *)
Exchange == INSTANCE HttpExchange WITH
              Verdict <- [b \in Browsers |-> Deserved(b)], served <- conn
ExchangeKept == Exchange!Spec

(* A slow or silent browser has the server for two deadlines at most, one  *)
(* to ask and one to be answered in, but for the pass that finds it out.   *)
BoundedHold == held <= RequestTimeout + ResponseTimeout

(* A further request for a reboot puts it off.                             *)
Rearms == rebootIn # None /\ (ApButton \/ (answer # "reboot" /\ answer' = "reboot"))

(* The time to a reboot only runs down, and once it is up nobody else is   *)
(* served: a page that polls cannot keep it waiting with its next          *)
(* connection, only with the one it has, and that for BoundedHold.         *)
RebootIsNext ==
  [][/\ rebootIn # None /\ rebootIn' # None => Rearms \/ Wrap \/ rebootIn' <= rebootIn
     /\ rebootIn = 0 => conn' \in {conn, None}]_vars

(* A reboot that was asked for comes, however busy browsers keep the page, *)
(* unless the page is switched off, it is put off for ever, or millis()    *)
(* wraps over it again and again.  A reboot armed just before a wrap, and  *)
(* missed by a slow pass or a busy connection, is due again only in the    *)
(* last moments before the next wrap, and may be missed then too, so the   *)
(* property promises nothing across wraps: it is about the time from the   *)
(* last one on.                                                            *)
RebootComes ==
  /\ RebootIsNext
  /\ \/ []<><<Rearms>>_vars
     \/ []<><<Wrap>>_vars
     \/ (webOn /\ rebootIn # None) ~> (rebootIn = None \/ ~webOn)

=============================================================================
