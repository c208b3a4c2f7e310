------------------------------- MODULE Layout -------------------------------
(* The map of the shared region (layout.rs): the fields of every structure  *)
(* in it, where compute_offsets puts its areas, and what an access of       *)
(* region.rs demands of an address.  Everything here is a constant or a     *)
(* function of the configuration; ShmInit builds a region with it.          *)
EXTENDS Integers, Sequences

MAGIC == 1      \* abstracts 0x43485348; 0 is a region never initialised
VERSION == 2

\* A field: where it starts in its structure and how many bytes it takes.
At(off, width) == [off |-> off, width |-> width]

HDR_SIZE == 4096
HDR == [magic |-> At(0, 4), version |-> At(4, 4), total_size |-> At(8, 8),
        seq |-> At(16, 8), inline_size |-> At(24, 4),
        default_capacity |-> At(28, 4), expiry |-> At(32, 4),
        group_expiry |-> At(36, 4), max_channels |-> At(40, 4),
        max_groups |-> At(44, 4), max_processes |-> At(48, 4),
        max_members_per_group |-> At(52, 4), channel_index_off |-> At(56, 8),
        group_index_off |-> At(64, 8), group_members_off |-> At(72, 8),
        wakeup_registry_off |-> At(80, 8), metrics_off |-> At(88, 8),
        dynamic_pool_off |-> At(96, 8)]

CH_SLOT_SIZE == 168
CH_SLOT == [name_hash |-> At(0, 8), name_len |-> At(8, 2),
            name |-> At(10, 128), ring_offset |-> At(144, 8),
            capacity |-> At(152, 4), non_local |-> At(156, 1),
            version |-> At(160, 8)]

GRP_SLOT_SIZE == 176
GRP_SLOT == [name_hash |-> At(0, 8), name_len |-> At(8, 2),
             name |-> At(10, 128), members_offset |-> At(144, 8),
             member_count |-> At(152, 4), version |-> At(160, 8),
             active |-> At(168, 1)]

MEMBER_ENTRY_SIZE == 144
MEMBER == [channel_name |-> At(0, 128), join_time |-> At(128, 8),
           active |-> At(136, 1)]

REG_SLOT_SIZE == 168
REG == [client_prefix |-> At(0, 32), socket_path |-> At(32, 108),
        pid |-> At(140, 4), start_time |-> At(144, 8), valid |-> At(152, 1),
        version |-> At(160, 8)]

RING_HEADER_SIZE == 48
RING == [enqueue_pos |-> At(0, 8), dequeue_pos |-> At(8, 8),
         capacity |-> At(16, 4), last_compact_enq |-> At(24, 8),
         last_compact_deq |-> At(32, 8), generation |-> At(40, 8)]

\* recover_slot swaps owner_pid together with the padding behind it, as one
\* word of eight bytes.
SLOT_SIZE == 704
SLOT == [seq |-> At(0, 8), owner_pid |-> At(8, 8), owner_ticket |-> At(16, 8),
         owner_start_time |-> At(24, 8), compact_mark |-> At(32, 1),
         expiry_ts |-> At(40, 8), channel_len |-> At(48, 2),
         channel_name |-> At(50, 128), msg_len |-> At(180, 4),
         inline |-> At(184, 512), overflow_off |-> At(696, 8)]

METRICS_REGION_SIZE == 64 * 8
Counters == 0 .. 26         \* CounterId
CounterAt(k) == At(8 * k, 8)

\* What the debug assertions of region.rs ask: an access of up to eight
\* bytes is a multiple of its width away from the base, and inside the
\* mapping.  Runs of bytes (names, paths, payloads) only have to be inside.
Aligned(off, width) == width \in {1, 2, 4, 8} => off % width = 0
InBounds(off, width, len) == off + width <= len

Apart(off, width, off2, width2) ==
    off + width <= off2 \/ off2 + width2 <= off

\* A structure of the region: its fields do not share a byte, lie inside it
\* and are aligned wherever the structure starts on a word; in an array the
\* next one starts on a word too.
WellLaid(fields, size) ==
    /\ size % 8 = 0
    /\ \A f \in DOMAIN fields :
        /\ Aligned(fields[f].off, fields[f].width)
        /\ InBounds(fields[f].off, fields[f].width, size)
        /\ \A g \in DOMAIN fields \ {f} :
            Apart(fields[f].off, fields[f].width,
                  fields[g].off, fields[g].width)

StructuresWellLaid ==
    /\ WellLaid(HDR, HDR_SIZE) /\ WellLaid(CH_SLOT, CH_SLOT_SIZE)
    /\ WellLaid(GRP_SLOT, GRP_SLOT_SIZE) /\ WellLaid(REG, REG_SLOT_SIZE)
    /\ WellLaid(MEMBER, MEMBER_ENTRY_SIZE)
    /\ WellLaid(RING, RING_HEADER_SIZE) /\ WellLaid(SLOT, SLOT_SIZE)
    /\ WellLaid([n \in Counters |-> CounterAt(n)], METRICS_REGION_SIZE)

-----------------------------------------------------------------------------
\* compute_offsets works on the limits of a configuration.
HasLimits(c) ==
    /\ c.max_channels \in Nat /\ c.max_groups \in Nat
    /\ c.max_processes \in Nat

ch_off(c) == HDR_SIZE
\* Variant: a channel slot is as large as its fields, without the padding.
GrpOffPacked(c) == ch_off(c) + c.max_channels * 161
grp_off(c) == ch_off(c) + c.max_channels * CH_SLOT_SIZE
reg_off(c) == grp_off(c) + c.max_groups * GRP_SLOT_SIZE
members_off(c) == reg_off(c)
metrics_off(c) == reg_off(c) + c.max_processes * REG_SLOT_SIZE
pool_off(c) == metrics_off(c) + METRICS_REGION_SIZE

\* The slab's words at the head of the pool: a spinlock and a list head for
\* each of the 12 size classes, and the bump pointer.
SlabWords == 2 * 12 + 1

\* The areas of a region, as the bytes they take.
Areas(c) ==
    [header   |-> At(0, HDR_SIZE),
     channels |-> At(ch_off(c), c.max_channels * CH_SLOT_SIZE),
     groups   |-> At(grp_off(c), c.max_groups * GRP_SLOT_SIZE),
     registry |-> At(reg_off(c), c.max_processes * REG_SLOT_SIZE),
     metrics  |-> At(metrics_off(c), METRICS_REGION_SIZE),
     slab     |-> At(pool_off(c), 8 * SlabWords)]

AreasApart(c) ==
    \A a, b \in DOMAIN Areas(c) :
        a # b => Apart(Areas(c)[a].off, Areas(c)[a].width,
                       Areas(c)[b].off, Areas(c)[b].width)

AreasAligned(c) == \A a \in DOMAIN Areas(c) : Areas(c)[a].off % 8 = 0

\* Slot i of a table that starts at base, and whether every access to its
\* fields is legal when the table ends at end.
SlotAt(base, size, i) == base + i * size
LegalTable(base, size, fields, n, end) ==
    \A i \in 0 .. n - 1 : \A f \in DOMAIN fields :
        LET at == SlotAt(base, size, i) + fields[f].off
        IN  Aligned(at, fields[f].width) /\ InBounds(at, fields[f].width, end)

LayoutSound(c) ==
    /\ AreasApart(c) /\ AreasAligned(c)
    /\ LegalTable(ch_off(c), CH_SLOT_SIZE, CH_SLOT, c.max_channels,
                  grp_off(c))
    /\ LegalTable(grp_off(c), GRP_SLOT_SIZE, GRP_SLOT, c.max_groups,
                  reg_off(c))
    /\ LegalTable(reg_off(c), REG_SLOT_SIZE, REG, c.max_processes,
                  metrics_off(c))
=============================================================================
