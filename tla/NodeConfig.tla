----------------------------- MODULE NodeConfig -----------------------------
(***************************************************************************)
(* common/config.cc: reading a node's .conf file and judging it.  A line   *)
(* is its key with the value behind the equals sign; a neighbor is         *)
(* id@host:port, well written or not.  Comments and blanks are left out.   *)
(***************************************************************************)
EXTENDS Naturals, Sequences, SequencesExt

CONSTANT ConfFiles      \* the .conf files there may be: sequences of lines

ASSUME ConfAssumption == \A file \in ConfFiles : file \in Seq(ToSet(file))

Keys == {"node_id", "language", "listen_host", "listen_port", "neighbors",
         "assigned_files"}

EmptyConfig ==
    [readable |-> TRUE, node_id |-> "", language |-> "", listen_host |-> "",
     listen_port |-> 0, neighbors |-> <<>>, assigned_files |-> <<>>]

\* parseNeighbor throws unless the item has its @ and its : and no part of
\* it is empty.
IsNeighbor(item) == item.written /\ item.id # "" /\ item.host # ""

\* MUTANT of ReadLine: a second list of neighbors is added to the first.
ReadLineAdding(cfg, l) ==
    IF l.key = "neighbors" THEN [cfg EXCEPT !.neighbors = @ \o l.value]
    ELSE IF l.key \in Keys THEN [cfg EXCEPT ![l.key] = l.value]
    ELSE [cfg EXCEPT !.readable = FALSE]

\* One line of loadConfig: a key that comes again replaces what it said
\* before, a key that is not known or a neighbor that cannot be read ends
\* the program.
ReadLine(cfg, l) ==
    IF l.key \notin Keys
       \/ (l.key = "neighbors" /\ \E k \in DOMAIN l.value : ~IsNeighbor(l.value[k]))
    THEN [cfg EXCEPT !.readable = FALSE]
    ELSE [cfg EXCEPT ![l.key] = l.value]

\* validateConfig.
IsValidConfig(cfg) ==
    /\ cfg.node_id # "" /\ cfg.listen_host # "" /\ cfg.listen_port # 0
    /\ cfg.language \in {"cpp", "python"}
    /\ \A k \in DOMAIN cfg.neighbors :
           /\ cfg.neighbors[k].port # 0
           /\ cfg.neighbors[k].id # cfg.node_id
           /\ \A j \in 1 .. k - 1 : cfg.neighbors[j].id # cfg.neighbors[k].id

LoadConfig(file) == FoldLeft(ReadLine, EmptyConfig, file)

Accepts(cfg) == cfg.readable /\ IsValidConfig(cfg)

NeighborIds(cfg) == [k \in DOMAIN cfg.neighbors |-> cfg.neighbors[k].id]
=============================================================================
