---------------------------- MODULE MCNodeStart ----------------------------
(***************************************************************************)
(* Three nodes; child lists that make shared nodes, cycles, self-loops and *)
(* repeated names; .conf files that are right and wrong in one way each;   *)
(* two source files, and one that is no .csv file.                         *)
(***************************************************************************)
EXTENDS NodeStart, OverlayTraversal

MCNode == {"A", "B", "C"}
MCFile == {"f", "g", "t"}
MCCsvFile == {"f", "g"}

MCInfos == {[isEntryNode |-> TRUE, ownedFiles |-> <<"f">>],
            [isEntryNode |-> FALSE, ownedFiles |-> <<>>],
            [isEntryNode |-> FALSE, ownedFiles |-> <<"f">>]}

MCChildLists == {<<>>, <<"A">>, <<"B">>, <<"C">>, <<"A", "B">>, <<"B", "C">>, <<"C", "C">>}

-----------------------------------------------------------------------------
Line(key, value) == [key |-> key, value |-> value]

Peer(id) == [id |-> id, host |-> "127.0.0.1", port |-> 50052, written |-> TRUE]
B == Peer("B")
C == Peer("C")

Identity == <<Line("node_id", "A"), Line("language", "cpp"),
              Line("listen_host", "0.0.0.0"), Line("listen_port", 50051)>>

PeerLists == {<<>>, <<B>>, <<C, B>>, <<B, B>>, <<Peer("A")>>, <<[B EXCEPT !.port = 0]>>,
              <<[B EXCEPT !.written = FALSE]>>, <<C, [B EXCEPT !.host = ""]>>}

FileLists == {<<>>, <<"f">>, <<"g", "f">>, <<"f", "f">>, <<"t", "g">>}

MCConfFiles ==
    {Identity \o <<Line("neighbors", n), Line("assigned_files", a)>> :
        n \in PeerLists, a \in FileLists}
    \cup {Identity \o <<Line("neighbors", <<B>>), Line("neighbors", <<C>>),
                        Line("assigned_files", <<"f">>), Line("assigned_files", <<"g">>)>>}
    \cup {RemoveAt(Identity, k) : k \in 1 .. 4}
    \cup {Identity \o <<Line("language", "java")>>, Identity \o <<Line("peers", <<B>>)>>,
          Identity \o <<Line("node_id", "B"), Line("neighbors", <<Peer("A")>>)>>}

-----------------------------------------------------------------------------
AFile(present, header, lines) == [present |-> present, header |-> header, lines |-> lines]

MCDisks ==
    LET full == AFile(TRUE, "usable", <<"match", "empty", "rejected", "space", "match">>)
    IN  {[f |-> d, g |-> full, t |-> full] :
            d \in {full, AFile(FALSE, "usable", <<>>), AFile(TRUE, "unusable", <<"match">>),
                   AFile(TRUE, "usable", <<"space", "empty">>),
                   AFile(TRUE, "usable", <<"malformed", "match">>)}}

MCWorkerLists == {<<"A", "B">>, <<"B", "C", "A">>, <<"C", "C">>}
MCShard == [file : File, bytes : 1 .. 6, trips : 1 .. 3]
=============================================================================
