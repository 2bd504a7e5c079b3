---------------------------- MODULE RtdbMonitor ----------------------------
(***************************************************************************)
(* Looking at a database from another computer: a library with the         *)
(* interface of the database that sends each call to a server and waits    *)
(* for its reply (libkogmo_rtdb_udpmon.c, udpsimpleserver.c).  UDP loses,  *)
(* delays, repeats and reorders packets; a request is sent once, and given *)
(* up when there was no packet for a while.                                *)
(*                                                                         *)
(* A packet that has been sent may arrive any number of times, until       *)
(* MaxDelay more requests have been sent.  Data are the number of their    *)
(* commit; their compression and the reduction of images are left out, and *)
(* requests of a wrong length or version.                                  *)
(***************************************************************************)
EXTENDS Integers, FiniteSets

CONSTANTS
  SERIALS,      \* 2^16, the numbers of requests
  MaxDelay,     \* bound: requests that may overtake a packet
  MaxRequests,  \* bound: requests sent
  MaxRemote,    \* bound: objects in the database
  MaxVersion,   \* bound: commits of each
  ApiCalls      \* bound: what the client calls

RtdbOid == 1    \* the object "rtdb", with the time of the database
ApiKinds == {"searchinfo", "searchinfo_wait", "readinfo", "readdata", "waitnext", "writedata",
             "insert", "delete"}

\* A packet is gone before its number comes again; there is room for the objects that the
\* database has at the beginning.
ASSUME MonitorAssumption ==
  /\ {SERIALS, MaxDelay, MaxRequests, MaxRemote, MaxVersion} \subseteq Nat /\ MaxDelay < SERIALS
  /\ MaxRemote >= 2 /\ MaxVersion >= 1
  /\ ApiCalls \subseteq [kind : ApiKinds, oid : 0 .. MaxRemote]

VARIABLES
  remote,       \* the objects: -1 for none, 0 for no data yet, or the last commit
  next_remote,  \* ids given away
  requests, replies,    \* packets that may still arrive
  serial,       \* kogmo_rtdb_udpmon_req_serial
  api,          \* the call the client is in
  req,          \* the request it waits for, or is to send
  waits,        \* whether it has sent it
  from, was,    \* the database when the call began, and the objects there were since
  done,         \* the requests whose changes the server has made
  result        \* of the last call

netVars == <<requests, replies>>
monitorVars == <<remote, next_remote, netVars, serial, api, req, waits, from, was, done, result>>

Remotes == 1 .. MaxRemote
There == {o \in Remotes : remote[o] >= 0}
Idle == [kind |-> "none", oid |-> 0]
Request(ask, o) == [n |-> 0, ask |-> ask, oid |-> o]
NoResult == [ok |-> FALSE, n |-> 0, found |-> {}, data |-> 0]

MonitorInit ==
  /\ remote = [o \in Remotes |-> IF o <= 2 THEN 1 ELSE -1]
  /\ next_remote = 2
  /\ requests = {} /\ replies = {}
  /\ serial = 0 /\ api = Idle /\ req = Request("none", 0) /\ waits = FALSE
  /\ from = [o \in Remotes |-> -1] /\ was = {} /\ done = {}
  /\ result = NoResult

-----------------------------------------------------------------------------
(* The server: it remembers nothing of a request *)

ReplyTo(p, o, found, data) ==
  replies' = replies \cup {[n |-> p.n, oid |-> o, found |-> found, data |-> data]}

ClientUnchanged == UNCHANGED <<requests, serial, api, req, waits, from, result>>

\* LIST.  When nothing is found, an error follows the list in the same packet.
ServeList(p) ==
  LET found == There \cap (IF p.ask = "rtdb" THEN {RtdbOid} ELSE Remotes \ {RtdbOid}) IN
  /\ p.ask \in {"list", "rtdb"}
  /\ ReplyTo(p, Cardinality(found), found, 0)
  /\ UNCHANGED <<remote, next_remote, was, done>> /\ ClientUnchanged

\* INFO, DATA.  Of an object that is not there comes an empty packet, which the
\* client does not look at.
ServeRead(p) ==
  /\ p.ask \in {"info", "data"} /\ p.oid \in There
  /\ ReplyTo(p, p.oid, {}, remote[p.oid])
  /\ UNCHANGED <<remote, next_remote, was, done>> /\ ClientUnchanged

\* WRITE, with the object's id in the reply, or the error.
ServeWrite(p) ==
  /\ p.ask = "write"
  /\ IF p.oid \in There
     THEN /\ remote[p.oid] < MaxVersion
          /\ remote' = [remote EXCEPT ![p.oid] = @ + 1]
          /\ done' = done \cup {p.n}
          /\ ReplyTo(p, p.oid, {}, 0)
     ELSE ReplyTo(p, -1, {}, 0) /\ UNCHANGED <<remote, done>>
  /\ UNCHANGED <<next_remote, was>> /\ ClientUnchanged

\* WRITE of metadata without deleted_ts ...
ServeInsert(p) ==
  /\ p.ask = "insert"
  /\ IF next_remote < MaxRemote
     THEN /\ next_remote' = next_remote + 1
          /\ remote' = [remote EXCEPT ![next_remote'] = 0]
          /\ was' = IF api = Idle THEN was ELSE was \cup {next_remote'}
          /\ done' = done \cup {p.n}
          /\ ReplyTo(p, next_remote', {}, 0)
     ELSE ReplyTo(p, -1, {}, 0) /\ UNCHANGED <<remote, next_remote, was, done>>
  /\ ClientUnchanged

\* ... or with it; kogmo_rtdb_obj_delete returns 0.
ServeDelete(p) ==
  /\ p.ask = "delete"
  /\ IF p.oid \in There
     THEN /\ remote' = [remote EXCEPT ![p.oid] = -1]
          /\ done' = done \cup {p.n}
          /\ ReplyTo(p, 0, {}, 0)
     ELSE ReplyTo(p, -1, {}, 0) /\ UNCHANGED <<remote, done>>
  /\ UNCHANGED <<next_remote, was>> /\ ClientUnchanged

\* The other processes of the database; of "rtdb" it is enough that it has data.
CommitRemote(o) ==
  /\ o \in There \ {RtdbOid} /\ remote[o] < MaxVersion
  /\ remote' = [remote EXCEPT ![o] = @ + 1]
  /\ UNCHANGED <<next_remote, was, done, replies>> /\ ClientUnchanged

DeleteRemote(o) ==
  /\ o \in There \ {RtdbOid}
  /\ remote' = [remote EXCEPT ![o] = -1]
  /\ UNCHANGED <<next_remote, was, done, replies>> /\ ClientUnchanged

-----------------------------------------------------------------------------
(* The client, single-threaded *)

DatabaseUnchanged == UNCHANGED <<remote, next_remote, done>>

\* What a call asks first.  To delete, the time is asked for: the object "rtdb" is
\* searched and read.
FirstAsk(c) ==
  CASE c.kind \in {"searchinfo", "searchinfo_wait"} -> Request("list", 0)
    [] c.kind = "readinfo" -> Request("info", c.oid)
    [] c.kind \in {"readdata", "waitnext"} -> Request("data", c.oid)
    [] c.kind = "writedata" -> Request("write", c.oid)
    [] c.kind = "insert" -> Request("insert", 0)
    [] c.kind = "delete" -> Request("rtdb", 0)

BeginCall(c) ==
  /\ api = Idle
  /\ api' = c /\ req' = FirstAsk(c)
  /\ from' = remote /\ was' = There /\ result' = NoResult
  /\ UNCHANGED <<netVars, serial, waits>> /\ DatabaseUnchanged

\* udpmon_request
SendRequest ==
  /\ api # Idle /\ ~waits /\ serial < MaxRequests
  /\ serial' = serial + 1
  /\ req' = [req EXCEPT !.n = serial']
  /\ requests' = {p \in requests : p.n + MaxDelay >= serial'} \cup {req'}
  /\ replies' = {r \in replies : r.n + MaxDelay >= serial'}
  /\ waits' = TRUE
  /\ UNCHANGED <<api, from, was, result>> /\ DatabaseUnchanged

\* Any other packet is ignored.
AnswersAny(r) == req.oid # 0 => r.oid = req.oid                   \* a mutant
Answers(r) ==
  /\ r.n % SERIALS = req.n % SERIALS
  /\ req.oid # 0 => r.oid = req.oid

\* The request has failed: no packet for half a second, or a list with an error.
Failed == [NoResult EXCEPT !.n = req.n]
Received(r) == [ok |-> r.oid >= 0, n |-> req.n, found |-> r.found, data |-> r.data]

\* The outcome is that of the call ...
CallReturns(x) ==
  /\ result' = x /\ api' = Idle /\ waits' = FALSE /\ req' = Request("none", 0)
  /\ from' = [o \in Remotes |-> -1] /\ was' = {}

\* ... or the call goes on with another request: a wait begins again until there is
\* an object, or newer data; the time is read, and the object deleted - or, if the
\* time could not be had, its metadata are written with a deleted_ts of 0.
GoesOn(next) == req' = next /\ waits' = FALSE /\ UNCHANGED <<api, from, was, result>>

Outcome(x) ==
  CASE api.kind = "searchinfo_wait" /\ ~x.ok -> GoesOn(FirstAsk(api))
    [] api.kind = "waitnext" /\ x.ok /\ x.data <= from[api.oid] -> GoesOn(FirstAsk(api))
    [] req.ask = "rtdb" -> GoesOn(IF x.ok THEN Request("data", RtdbOid) ELSE Request("insert", api.oid))
    [] req.ask = "data" /\ api.kind = "delete" ->
         GoesOn(Request(IF x.ok /\ x.data # 0 THEN "delete" ELSE "insert", api.oid))
    [] OTHER -> CallReturns(x)

ReceiveReply(r) ==
  /\ waits /\ Answers(r)
  /\ Outcome(IF req.ask \in {"list", "rtdb"} /\ r.found = {} THEN Failed ELSE Received(r))
  /\ UNCHANGED <<netVars, serial>> /\ DatabaseUnchanged

ReceiveTimeout ==
  /\ waits
  /\ Outcome(Failed)
  /\ UNCHANGED <<netVars, serial>> /\ DatabaseUnchanged

MonitorNext ==
  \/ \E p \in requests : ServeList(p) \/ ServeRead(p) \/ ServeWrite(p) \/ ServeInsert(p) \/ ServeDelete(p)
  \/ \E o \in Remotes : CommitRemote(o) \/ DeleteRemote(o)
  \/ \E c \in ApiCalls : BeginCall(c)
  \/ SendRequest \/ ReceiveTimeout
  \/ \E r \in replies : ReceiveReply(r)

MonitorSpec == MonitorInit /\ [][MonitorNext]_monitorVars

-----------------------------------------------------------------------------
(* Properties *)

MonitorTypeOK ==
  /\ remote \in [Remotes -> -1 .. MaxVersion] /\ next_remote \in Remotes
  /\ \A p \in requests : p.n \in 1 .. serial /\ p.oid \in 0 .. MaxRemote
  /\ \A r \in replies : r.n \in 1 .. serial /\ r.oid \in -1 .. MaxRemote /\ r.found \subseteq Remotes
  /\ waits \in BOOLEAN /\ was \subseteq Remotes

\* What a call returns is true of its own time, whatever packets arrive late or more
\* than once: data as new as the database had when the call began, objects that
\* existed since, and of a change that it has been made (libkogmo_rtdb_udpmon.c:
\* 99, 156-157).
AnswersAreTrue ==
  [][result' # result /\ result'.ok =>
       CASE req.ask = "list" -> result'.found \subseteq was
         [] req.ask = "data" -> result'.data >= from[req.oid]
         [] req.ask \in {"write", "insert"} -> req.n \in done
         [] OTHER -> TRUE]_monitorVars

\* As the description says (kogmo_rtdb_funcs.h:92-113), kogmo_rtdb_obj_delete deletes:
\* it never makes an object.
DeleteNeverInserts ==
  [][api.kind = "delete" => req'.ask # "insert"]_monitorVars
=============================================================================
