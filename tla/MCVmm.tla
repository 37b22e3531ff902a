------------------------------- MODULE MCVmm -------------------------------
(* The address space on a machine of 18 frames, 2 bytes a page and 4 entries *)
(* a table: the windows take five large pages and two page directories each. *)
EXTENDS Vmm

\* Two pages of one table (896, 898), one of the lower half, whose top table the
\* identity window shares (64), one in each window (34, 770), one that is not
\* aligned (897) and one that is not canonical (300).
Addresses == {896, 898, 64, 34, 770, 897, 300}
\* No root; no tables for the windows; not enough for a page; enough for some.
BootPools == {{}, 4 .. 9, 4 .. 13, 4 .. 15}
=============================================================================
