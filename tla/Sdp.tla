-------------------------------- MODULE Sdp --------------------------------
(***************************************************************************)
(* Session descriptions (agent/agent.c): xice_agent_generate_local_sdp     *)
(* and xice_agent_parse_remote_sdp.  A description is a sequence of lines, *)
(* and a line a record; a line of a kind that the parser does not know is  *)
(* skipped.  Parsing is not a pure conversion: each candidate line is      *)
(* applied to the agent, which may start checks, before the next is read.  *)
(***************************************************************************)
EXTENDS IceAgent

CONSTANT NameOf      \* stream->name, "none" for NULL

Types == {"HOST", "SERVER_REFLEXIVE", "PEER_REFLEXIVE", "RELAYED"}

\* The first component of a stream is the RTP component.  Its default is the
\* candidate of the lowest priority, that of the others one of its foundation.
get_default_local_candidate_locked(w, s, c) ==
  LET v4(d) == SelectSeq(w.comp[d].locals, LAMBDA l : l.family = "v4")
      rtp   == CompsOf[s][1]
      best  == SelectInSeq(v4(rtp), LAMBDA l :
                 \A k \in ToSet(v4(rtp)) : l.priority <= k.priority)
      alike == SelectSeq(v4(c), LAMBDA l : l.foundation = v4(rtp)[best].foundation)
  IN  CASE best = 0    -> {}
        [] c = rtp     -> {v4(rtp)[best].addr}
        [] alike # <<>> -> {alike[1].addr}
        [] OTHER       -> {}

\* raddr is written when the base differs from the address.
generate_candidate_sdp(c, l) ==
  [kind |-> "candidate", foundation |-> l.foundation, component |-> c,
   transport |-> "UDP", priority |-> l.priority, addr |-> l.addr, family |-> l.family,
   type |-> l.type, raddr |-> {l.socket} \ {l.addr}]

generate_stream_sdp(w, s) ==
  <<[kind |-> "m", name |-> NameOf[s],
     default |-> [c \in ToSet(CompsOf[s]) |-> get_default_local_candidate_locked(w, s, c)]],
    [kind |-> "ice-ufrag"], [kind |-> "ice-pwd"]>>
  \o FlattenSeq([k \in DOMAIN CompsOf[s] |->
       LET c == CompsOf[s][k]
       IN  [j \in DOMAIN w.comp[c].locals |-> generate_candidate_sdp(c, w.comp[c].locals[j])]])

xice_agent_generate_local_sdp(w) ==
  FlattenSeq([k \in DOMAIN w.streams |-> generate_stream_sdp(w, w.streams[k])])

-----------------------------------------------------------------------------
\* The candidate in a line, if its type is known and its transport UDP.
xice_agent_parse_remote_candidate_sdp(line) ==
  IF line.type \notin Types \/ line.transport # "UDP" THEN {}
  ELSE {[addr |-> line.addr, priority |-> line.priority, foundation |-> line.foundation,
         family |-> line.family]}

\* One line.  t is the agent, the current stream ("none" for NULL) and the value
\* to be returned; after an error (-1) the rest of the description is not read.
ParseLine(t, line) ==
  LET found == SelectInSeq(t.agent.streams, LAMBDA s : NameOf[s] = line.name)
      fails == [t EXCEPT !.ret = -1]
      cands == xice_agent_parse_remote_candidate_sdp(line)
  IN  IF t.ret = -1 THEN t
      ELSE IF line.kind = "m"
      THEN [t EXCEPT !.current = IF found = 0 THEN "none" ELSE t.agent.streams[found]]
      ELSE IF t.current = "none" THEN fails
      ELSE IF line.kind = "ice-ufrag" THEN [t EXCEPT !.agent.credentials[t.current] = TRUE]
      ELSE IF line.kind = "ice-pwd" THEN t
      ELSE IF cands = {} \/ line.component \notin ToSet(CompsOf[t.current]) THEN fails
      ELSE [t EXCEPT !.ret = @ + 1,
                     !.agent = set_remote_candidates_locked(@, line.component,
                                                            SetToSeq(cands))]

\* The agent afterwards, and the number of candidates that were added or -1.
xice_agent_parse_remote_sdp(w, sdp) ==
  LET start == [agent |-> w, current |-> "none", ret |-> 0]
      named == \A k \in DOMAIN w.streams : NameOf[w.streams[k]] # "none"
  IN  IF named THEN FoldLeft(ParseLine, start, sdp) ELSE [start EXCEPT !.ret = -1]
=============================================================================
