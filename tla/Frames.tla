------------------------------- MODULE Frames -------------------------------
(***************************************************************************)
(* The library's calls from options to a frame and back (api.c): which of  *)
(* the four forms of frame a field gets, how a legacy frame of channels is *)
(* put together and taken apart (legacy.c), how buffers grow on the way,   *)
(* and how a reader tells the forms apart.                                 *)
(*                                                                         *)
(* An element is the position it had in the input, with the width it was   *)
(* rounded to.  What is inside an indexed or a leaf frame is left to       *)
(* IndexFile and LeafFrame, what is inside a channel to DeltaFilter.       *)
(***************************************************************************)
EXTENDS Integers, Sequences, SequencesExt

CONSTANTS
    Options,      \* what callers ask for
    Grid,         \* leaves have sides that are multiples of this
    MaxCube,      \* the side of the largest single leaf
    LeafSlack,    \* bytes set aside for a leaf besides four per voxel
    SizeMax,      \* the largest size_t
    HeaderBytes,  \* of a frame of channels, before its table
    EntryBytes,   \* of an entry of the table
    EntryMax,     \* the largest size an entry holds
    Payloads,     \* sizes an encoded channel may have
    ListElement,  \* bytes of an entry of a list
    ListMax       \* entries a list gets at most

Magic == "D3D1"
Foreign == "VCZ1"
Delta == 1
Presets == {Delta} \cup 3 .. 6

ASSUME LimitAssumption ==
    /\ SizeMax \in Nat /\ ListElement \in 1 .. SizeMax
    /\ EntryBytes \in Nat \ {0} /\ EntryMax \in Nat /\ HeaderBytes \in Nat

ASSUME OptionsAssumption ==
    /\ Options \subseteq [dims : Nat \X Nat \X Nat, channels : Nat, layout : Nat,
                          element : Nat, width : Nat, preset : Nat]
    /\ Payloads \subseteq Nat

VARIABLES
    opt,     \* the options of this call
    phase,   \* what comes next; "refused" by the encoder, "rejected" by a reader
    c,       \* channels encoded or decoded
    store,   \* the buffer that grows: entries in use, room, bytes of one, bytes in all
    parts,   \* the channels encoded so far
    file,    \* the frame
    info,    \* what vc_frame_inspect says
    ask,     \* the magic and the number of bytes a reader asks for
    offset,  \* bytes of the frame read
    out      \* the elements decoded

vars == <<opt, phase, c, store, parts, file, info, ask, offset, out>>

Count(o) == IF o.channels = 0 THEN 1 ELSE o.channels
Voxels(dims) == dims[1] * dims[2] * dims[3]
Bytes(o) == o.element * Voxels(o.dims) * Count(o)

Nothing == [form |-> "none"]
Unknown == [known |-> FALSE]
EmptyStore == [count |-> 0, capacity |-> 0, element |-> 1, bytes |-> 0]

Init ==
    /\ opt \in Options
    /\ phase = "compress"
    /\ c = 0 /\ store = EmptyStore /\ parts = <<>>
    /\ file = Nothing /\ info = Unknown
    /\ ask = [magic |-> Magic, bytes |-> 0] /\ offset = 0 /\ out = <<>>

-----------------------------------------------------------------------------
(* vc_compress.                                                            *)

Valid(o) ==
    /\ o.element \in {1, 2} /\ o.layout \in {0, 1} /\ o.width \in 1 .. 255
    /\ o.preset \in Presets
    /\ \A a \in 1 .. 3 : o.dims[a] > 0
    /\ Bytes(o) <= SizeMax

Aligned(o) == \A a \in 1 .. 3 : o.dims[a] % Grid = 0
Legacy(o) == o.preset = Delta \/ o.element # 1 \/ o.width # 1 \/ ~Aligned(o)
Indexed(o) ==
    o.channels # 0 \/ o.dims[1] # o.dims[2] \/ o.dims[2] # o.dims[3] \/ o.dims[3] > MaxCube

\* A slip: whether one leaf will do is asked before anything else.
RouteLeafFirst(o) ==
    IF o.channels = 0 /\ ~Indexed(o) THEN "leaf"
    ELSE IF Legacy(o) THEN (IF o.channels = 0 THEN "field" ELSE "channels") ELSE "index"
Route(o) ==
    IF Legacy(o) THEN (IF o.channels = 0 THEN "field" ELSE "channels")
    ELSE IF Indexed(o) THEN "index" ELSE "leaf"

\* A table of offsets and nothing else is where a frame of channels begins.
TableBytes(o) == HeaderBytes + EntryBytes * o.channels

Compress ==
    /\ phase = "compress"
    /\ phase' = IF ~Valid(opt) \/ (Route(opt) = "leaf" /\ 4 * Bytes(opt) + LeafSlack > SizeMax)
                   \/ (Route(opt) = "channels" /\ TableBytes(opt) > SizeMax)
                THEN "refused" ELSE Route(opt)
    /\ store' = CASE phase' = "channels" ->
                       [count |-> TableBytes(opt), capacity |-> TableBytes(opt),
                        element |-> 1, bytes |-> TableBytes(opt)]
                  [] phase' = "index" -> [EmptyStore EXCEPT !.element = ListElement]
                  [] OTHER -> store
    /\ UNCHANGED <<opt, c, parts, file, info, ask, offset, out>>

-----------------------------------------------------------------------------
(* Growing: vc_legacy_encode's own way, and vc_reserve.                    *)

Most(S) == CHOOSE v \in S : \A u \in S : u <= v
Doubled(capacity) == IF capacity <= SizeMax \div 2 THEN capacity * 2 ELSE SizeMax

\* realloc gets a product that wraps.
Allocated(s, capacity, count) ==
    [s EXCEPT !.capacity = capacity, !.count = count,
              !.bytes = (capacity * s.element) % (SizeMax + 1)]

Grown(s, count) ==
    IF count <= s.capacity THEN [s EXCEPT !.count = count]
    ELSE Allocated(s, Most({Doubled(s.capacity), count}), count)

Reservable(s, count) == count <= s.capacity \/ count <= SizeMax \div s.element

\* A slip: doubling may pass what the bytes can be counted in.
RoomDoubled(s, count) == Most({Doubled(s.capacity), count})
\* As much as twice the room, unless its bytes could not be counted.
Room(s, count) ==
    LET next == Most({Doubled(s.capacity), count}) IN
    IF next > SizeMax \div s.element THEN count ELSE next

Reserved(s, count) ==
    IF count <= s.capacity THEN [s EXCEPT !.count = count]
    ELSE Allocated(s, Room(s, count), count)

-----------------------------------------------------------------------------
(* The four forms.                                                         *)

\* Where element i of channel k is in the input or the output.
Position(o, k, i) ==
    IF o.layout = 1 THEN i * Count(o) + k ELSE k * Voxels(o.dims) + i

\* One channel as encode_field stores it: a frame of version 1.
Field(o, k, size) ==
    [form |-> Magic, version |-> 1, element |-> o.element, dims |-> o.dims, size |-> size,
     width |-> o.width,
     elements |-> [i \in 0 .. Voxels(o.dims) - 1 |->
                      [at |-> Position(o, k, i), width |-> o.width]]]

EncodeField ==
    /\ phase = "field"
    /\ \E size \in Payloads : file' = Field(opt, 0, size)
    /\ phase' = "inspect"
    /\ UNCHANGED <<opt, c, store, parts, info, ask, offset, out>>

EncodeChannel ==
    /\ phase = "channels" /\ c < opt.channels
    /\ \E size \in Payloads :
          IF size > EntryMax \/ size > SizeMax - store.count
          THEN phase' = "refused" /\ UNCHANGED <<c, store, parts>>
          ELSE /\ store' = Grown(store, store.count + size)
               /\ parts' = Append(parts, Field(opt, c, size))
               /\ c' = c + 1
               /\ UNCHANGED phase
    /\ UNCHANGED <<opt, file, info, ask, offset, out>>

EndChannels ==
    /\ phase = "channels" /\ c = opt.channels
    /\ file' = [form |-> Magic, version |-> 2, element |-> opt.element, dims |-> opt.dims,
                size |-> store.count, width |-> opt.width, layout |-> opt.layout,
                channels |-> opt.channels, parts |-> parts]
    /\ phase' = "inspect" /\ c' = 0
    /\ UNCHANGED <<opt, store, parts, info, ask, offset, out>>

\* The lists of an index, its nodes and leaves, grow by one entry.
ListEntry ==
    /\ phase = "index" /\ store.count < ListMax
    /\ IF Reservable(store, store.count + 1)
       THEN store' = Reserved(store, store.count + 1) /\ UNCHANGED phase
       ELSE phase' = "refused" /\ UNCHANGED store
    /\ UNCHANGED <<opt, c, parts, file, info, ask, offset, out>>

Whole(o) == [p \in 0 .. Voxels(o.dims) * Count(o) - 1 |-> [at |-> p, width |-> 1]]

EndIndex ==
    /\ phase = "index" /\ store.count > 0
    /\ file' = [form |-> "NGC2", channels |-> Count(opt), bytes |-> Bytes(opt),
                elements |-> Whole(opt)]
    /\ phase' = "inspect"
    /\ UNCHANGED <<opt, c, store, parts, info, ask, offset, out>>

EncodeLeaf ==
    /\ phase = "leaf"
    /\ file' = [form |-> "NCF1", bytes |-> Voxels(opt.dims), elements |-> Whole(opt)]
    /\ phase' = "inspect"
    /\ UNCHANGED <<opt, c, store, parts, info, ask, offset, out>>

\* A legacy frame may also come from a program with a magic of its own; channels
\* within it keep this one.
Rename ==
    /\ phase = "inspect" /\ file.form = Magic
    /\ file' = [file EXCEPT !.form = Foreign]
    /\ UNCHANGED <<opt, phase, c, store, parts, info, ask, offset, out>>

-----------------------------------------------------------------------------
(* vc_frame_inspect and vc_decompress_with_magic.                          *)

\* vc_legacy_probe.
Probed(f, magic) == f.form = magic
ProbedBytes(f) ==
    f.element * Voxels(f.dims) * (IF f.version = 2 THEN f.channels ELSE 1)

Known(bytes, channels, width, scalar) ==
    [known |-> TRUE, bytes |-> bytes, channels |-> channels, width |-> width,
     scalar |-> scalar]

Inspect ==
    /\ phase = "inspect"
    /\ info' = CASE file.form = "NGC2" -> Known(file.bytes, file.channels, 1, FALSE)
                 [] file.form = "NCF1" -> Known(file.bytes, 1, 1, FALSE)
                 [] Probed(file, Magic) ->
                       Known(ProbedBytes(file), IF file.version = 2 THEN file.channels ELSE 1,
                             file.width, file.version = 1)
                 [] OTHER -> Unknown
    /\ phase' = "decompress"
    /\ UNCHANGED <<opt, c, store, parts, file, ask, offset, out>>

\* A reader asks with either magic, for the right number of bytes or another.
Decompress ==
    /\ phase = "decompress"
    /\ \E magic \in {Magic, Foreign}, bytes \in {Bytes(opt), Bytes(opt) - 1} :
          /\ ask' = [magic |-> magic, bytes |-> bytes]
          /\ IF magic = Magic /\ file.form \in {"NGC2", "NCF1"}
             THEN IF bytes = file.bytes
                  THEN phase' = "decoded" /\ out' = file.elements
                  ELSE phase' = "rejected" /\ UNCHANGED out
             ELSE /\ phase' = IF ~Probed(file, magic) THEN "rejected"
                              ELSE IF ProbedBytes(file) # bytes THEN "rejected"
                              ELSE IF file.version = 1 THEN "decoded"
                              ELSE IF file.channels > (file.size - HeaderBytes) \div EntryBytes
                              THEN "rejected" ELSE "scatter"
                  /\ out' = IF phase' = "decoded" THEN file.elements ELSE out
    /\ offset' = IF phase' = "scatter" THEN HeaderBytes + EntryBytes * file.channels
                 ELSE offset
    /\ UNCHANGED <<opt, c, store, parts, file, info>>

\* One channel is decoded to its place.
DecodeChannel ==
    LET part == file.parts[c + 1]
        n == Voxels(file.dims)
        To(i) == IF file.layout = 1 /\ file.channels > 1 THEN i * file.channels + c
                 ELSE c * n + i
    IN
    /\ phase = "scatter" /\ c < file.channels
    /\ IF part.size > file.size - offset \/ ~Probed(part, Magic) \/ part.version # 1
          \/ part.element # file.element \/ part.dims # file.dims
       THEN phase' = "rejected" /\ UNCHANGED <<c, offset, out>>
       ELSE /\ out' = [p \in (DOMAIN out) \cup {To(i) : i \in 0 .. n - 1} |->
                          IF \E i \in 0 .. n - 1 : To(i) = p
                          THEN part.elements[CHOOSE i \in 0 .. n - 1 : To(i) = p]
                          ELSE out[p]]
            /\ offset' = offset + part.size
            /\ c' = c + 1
            /\ UNCHANGED phase
    /\ UNCHANGED <<opt, store, parts, file, info, ask>>

EndScatter ==
    /\ phase = "scatter" /\ c = file.channels
    /\ phase' = IF offset = file.size THEN "decoded" ELSE "rejected"
    /\ UNCHANGED <<opt, c, store, parts, file, info, ask, offset, out>>

Next ==
    \/ Compress \/ EncodeField \/ EncodeChannel \/ EndChannels
    \/ ListEntry \/ EndIndex \/ EncodeLeaf \/ Rename
    \/ Inspect \/ Decompress \/ DecodeChannel \/ EndScatter

Spec == Init /\ [][Next]_vars

-----------------------------------------------------------------------------
\* Whatever form the options lead to, a reader finds the same form: inspection names
\* the bytes and channels of the input, the right call gives every element back in
\* its place, rounded to the width that was asked for, and only calls for other
\* bytes or another magic are rejected.
FrameRestored ==
    /\ info.known =>
          info.bytes = Bytes(opt) /\ info.channels = Count(opt) /\ info.width = opt.width
    /\ phase = "decoded" =>
          out = [p \in 0 .. Voxels(opt.dims) * Count(opt) - 1 |->
                    [at |-> p, width |-> opt.width]]
    /\ phase = "rejected" =>
          \/ ask.bytes # Bytes(opt)
          \/ ask.magic # (IF file.form \in {"NGC2", "NCF1"} THEN Magic ELSE file.form)

\* What is in use of a growing buffer lies within what was allocated, up to the
\* last byte that can be counted; growth is refused only beyond it.
StoresInside ==
    /\ store.count * store.element <= store.bytes
    /\ phase = "refused" /\ store.element > 1 =>
          (store.count + 1) * store.element > SizeMax
=============================================================================
