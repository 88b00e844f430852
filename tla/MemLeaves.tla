----------------------------- MODULE MemLeaves ------------------------------
(***************************************************************************)
(* Memory leaves as a reader of the database sees them: some bytes at some *)
(* addresses for some time (MemWriteLeaf and Db::mem_leaf_data,            *)
(* crates/db/src/memory.rs and db.rs).  What was in memory is what the     *)
(* leaves cover; DisjointPass makes sure no two cover the same byte.       *)
(***************************************************************************)
EXTENDS Integers, Sequences

\* addr_range
AddrMax(leaf) == (leaf.addr_min + Len(leaf.bytes)) - 1
Addrs(leaf) == leaf.addr_min..AddrMax(leaf)

\* The leaf that covers an address at a time, as a set.
Covering(leaves, addr, time) ==
  {l \in leaves : addr \in Addrs(l) /\ time \in l.time_min..l.time_max}

\* The byte in memory, as a set that is empty when it is unknown.
ByteAt(leaves, addr, time) ==
  {l.bytes[(addr - l.addr_min) + 1] : l \in Covering(leaves, addr, time)}

Times(leaves) == UNION {l.time_min..l.time_max : l \in leaves}

\* The leaves of a layout (first address, bytes, first and last time of each),
\* with every choice of bytes.
Filled(layout, Byte) ==
  {{[addr_min |-> l[1], bytes |-> [i \in 1..l[2] |-> fill[l, i]],
     time_min |-> l[3], time_max |-> l[4]] : l \in layout} :
     fill \in [UNION {{<<l, i>> : i \in 1..l[2]} : l \in layout} -> Byte]}
=============================================================================
