----------------------------- MODULE MCPageFault -----------------------------
(***************************************************************************)
(* An instance of PageFault for TLC: two threads that take one fault of    *)
(* each kind, and the processes of the demo.  No thread has a page at an   *)
(* address of the demo.                                                    *)
(***************************************************************************)
EXTENDS PageFault

CONSTANTS p1, p2, p3, v1, v2, v3

MCPageOf == [p \in {p1, p2, p3} |-> IF p = p3 THEN v2 ELSE v1]

Mov      == <<139>>
Prefetch == <<102, 15, 24>>

\* A fault of the user's own code, and one of kernel code that touches user
\* memory as it should.
OfUser(bits) ==
    [space |-> "user", bits |-> bits, user |-> TRUE, fix |-> FALSE,
     off |-> FALSE, ac |-> FALSE, near |-> TRUE, traced |-> "none",
     entry |-> {}, master |-> "none", guard |-> FALSE, quirk |-> FALSE,
     code |-> Mov, page |-> v3]

OfKernel(bits) ==
    [OfUser(bits) EXCEPT !.user = FALSE, !.fix = TRUE, !.ac = TRUE]

InKernel(bits) ==
    [OfKernel(bits) EXCEPT !.space = "kernel", !.fix = FALSE]

UserFaults ==
    {OfUser(b) : b \in {{"U"}, {"U", "W"}, {"U", "P"}, {"U", "P", "K"}, {},
                        {"U", "P", "R"}}}
    \cup {[OfUser({"U"}) EXCEPT !.code = Prefetch],
          [OfUser({"U", "W"}) EXCEPT !.near = FALSE],
          [OfUser({"U", "I"}) EXCEPT !.quirk = TRUE],
          [OfUser({"U", "I"}) EXCEPT !.space = "kernel",
                                     !.traced = "vsyscall"]}

KernelFaults ==
    {OfKernel({}), OfKernel({"W"}), OfKernel({"P", "R"}),
     [OfKernel({"W"}) EXCEPT !.off = TRUE],
     [OfKernel({}) EXCEPT !.ac = FALSE],
     [OfKernel({"W"}) EXCEPT !.fix = FALSE],
     [OfKernel({"W"}) EXCEPT !.traced = "kprobe", !.fix = FALSE],
     [OfKernel({"I"}) EXCEPT !.quirk = TRUE, !.fix = FALSE],
     [OfKernel({}) EXCEPT !.code = Prefetch, !.fix = FALSE]}

SpaceFaults ==
    {[InKernel({"W"}) EXCEPT !.space = "vmalloc", !.master = m] :
        m \in {"empty", "mapped"}}
    \cup
    {[InKernel({"W", "P"}) EXCEPT !.entry = {"P", "W"}],
     [InKernel({"W", "P"}) EXCEPT !.entry = {"P"}],
     [InKernel({"I", "P"}) EXCEPT !.entry = {"P", "I"}],
     [InKernel({"W"}) EXCEPT !.guard = TRUE],
     [InKernel({"W"}) EXCEPT !.traced = "kmmio"]}

MCFaults == UserFaults \cup KernelFaults \cup SpaceFaults

Area(over, grows, may, key) ==
    [over |-> over, grows |-> grows, may |-> may, key |-> key]

\* Nothing, a gap, a stack and the same grown, and areas of lesser rights.
MCAreas ==
    {None, Area(FALSE, FALSE, {"r", "w"}, TRUE)}
    \cup {Area(over, TRUE, {"r", "w"}, TRUE) : over \in BOOLEAN}
    \cup {Area(TRUE, FALSE, may, TRUE) : may \in {{}, {"r"}}}
    \cup {Area(TRUE, FALSE, {"r", "w"}, FALSE)}
=============================================================================
