------------------------------ MODULE MCChannels ------------------------------
(***************************************************************************)
(* The parts of the system that must get something through in the end,     *)
(* each checked in the same run on its own: the outbox of the rooms, the   *)
(* threads of the scouts, the fans, the host's notifications and the       *)
(* plugin's catalogue.  They share no state, so a behaviour is one of one  *)
(* part, and the others stay as they started.                              *)
(***************************************************************************)
EXTENDS MatrixOutbox, ScoutThreads, FanControl, Notify, Caps

VARIABLE channel  \* the part the behaviour is of

Channels == {"outbox", "scouts", "fans", "notify", "caps"}
channelVars == <<channel, vars, scoutVars, fanVars, notifyVars, capsVars>>

\* The parts that are not looked at have one initial state each.
ChannelsInit ==
  /\ channel \in Channels
  /\ Init /\ (channel # "outbox" => \A p \in Plans : state[p] = "running")
  /\ ScoutInit
  /\ FanInit /\ (channel # "fans" => card = "amd" /\ ~hasBoard /\ temp = [g \in Cards |-> 40000])
  /\ NotifyInit
  /\ CapsInit /\ (channel # "caps" => publishes = Urls)

\* A step of one part.
Outbox(A) == channel = "outbox" /\ A /\ UNCHANGED <<channel, scoutVars, fanVars, notifyVars, capsVars>>
Scouting(A) == channel = "scouts" /\ A /\ UNCHANGED <<channel, vars, fanVars, notifyVars, capsVars>>
Cooling(A) == channel = "fans" /\ A /\ UNCHANGED <<channel, vars, scoutVars, notifyVars, capsVars>>
Notifying(A) == channel = "notify" /\ A /\ UNCHANGED <<channel, vars, scoutVars, fanVars, capsVars>>
Warming(A) == channel = "caps" /\ A /\ UNCHANGED <<channel, vars, scoutVars, fanVars, notifyVars>>

ChannelsNext ==
  \/ Outbox(Next)
  \/ Scouting(ScoutNext)
  \/ Cooling(FanNext)
  \/ Notifying(NotifyNext)
  \/ Warming(CapsNext)

\* The fairness of each part, as its own module states it, for the behaviours of it.
Publishing(p) == channel = "notify" /\ (Flushes(p) \/ (proc[p].pc = "writing" /\ Publishes(p)))

ChannelsFairness ==
  /\ WF_vars(channel = "outbox" /\ Bot)
  /\ SF_vars(channel = "outbox" /\ Send) /\ SF_vars(channel = "outbox" /\ Ack)
  /\ WF_scoutVars(channel = "scouts" /\ Reconciles)
  /\ WF_fanVars(channel = "fans" /\ Loops)
  /\ WF_notifyVars(Publishing(1)) /\ WF_notifyVars(Publishing(2)) /\ WF_notifyVars(Publishing(TIMER))
  /\ WF_capsVars(channel = "caps" /\ Lookup)
  /\ WF_capsVars(channel = "caps" /\ Warms("a")) /\ WF_capsVars(channel = "caps" /\ Warms("b"))

ChannelsSpec == ChannelsInit /\ [][ChannelsNext]_channelVars /\ ChannelsFairness

\* As long as requests ask for the model it gets known, in memory, again and again:
\* past failed fetches, restarts and a mirror that two threads spoil (Caps' GetsKnown).
AskedGetsKnown == channel = "caps" => GetsKnown
=============================================================================
