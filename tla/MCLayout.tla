------------------------------ MODULE MCLayout ------------------------------
(* Command lines for the backends with a layout of their own.              *)
EXTENDS Layout

Plain == [api |-> "HDF5", filePerProc |-> FALSE, collective |-> FALSE,
          segments |-> 2, transfers |-> 2, rankOffset |-> 0,
          readCheck |-> FALSE, deadline |-> FALSE, big |-> FALSE,
          intraTestBarriers |-> FALSE, repetitions |-> 1]

Using(x) == [Plain EXCEPT !.api = x]

\* Segments and transfers, in turn and by one call, for oneself and others.
Layouts ==
    {[Using(x) EXCEPT !.filePerProc = f, !.collective = c, !.rankOffset = o] :
        x \in {"HDF5", "VIEW"}, f \in BOOLEAN, c \in BOOLEAN, o \in {0, 1}}

\* The rows of NetCDF are the rank's own: no reordering.
Rows ==
    {[Using("NCMPI") EXCEPT !.collective = c, !.big = b, !.segments = 3] : c, b \in BOOLEAN}
    \cup {[Using("NCMPI") EXCEPT !.readCheck = TRUE],
          [Using("NCMPI") EXCEPT !.readCheck = TRUE, !.collective = TRUE, !.repetitions = 2],
          [Using("NCMPI") EXCEPT !.deadline = TRUE]}

\* One segment in a strided datatype, and one that holds other segments.
Strided ==
    {[Using("STRIDED") EXCEPT !.segments = 1, !.filePerProc = f, !.readCheck = TRUE] : f \in BOOLEAN}
    \cup {Using("STRIDED")}

\* Segmented, strided, and objects of one's own; parts that do not match.
Objects ==
    UNION {{[Using("S3") EXCEPT !.segments = 1, !.transfers = 3, !.rankOffset = o],
            [Using("S3") EXCEPT !.segments = 3, !.transfers = 1, !.rankOffset = o,
                                !.repetitions = 2],
            [Using("S3") EXCEPT !.filePerProc = TRUE, !.rankOffset = o, !.repetitions = 2],
            [Using("EMC") EXCEPT !.segments = 3, !.transfers = 1, !.rankOffset = o,
                                 !.intraTestBarriers = TRUE],
            [Using("EMC") EXCEPT !.filePerProc = TRUE, !.rankOffset = o]} : o \in {0, 1}}
    \cup {[Using("S3") EXCEPT !.segments = 1, !.deadline = TRUE],
          [Using("S3") EXCEPT !.segments = 3, !.transfers = 1, !.deadline = TRUE]}

Usual == Layouts \cup Rows \cup Strided \cup Objects

\* -R with HDF5 and one transfer in a block, where ReadBack does not hold.
Checked == {[Plain EXCEPT !.readCheck = TRUE, !.transfers = 1]}
=============================================================================
