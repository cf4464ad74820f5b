------------------------------ MODULE ParamRecords ------------------------------
(***************************************************************************)
(* Decoder configuration records (go-codec/h264.go, h265.go): what muxers  *)
(* make of the parameter sets of a stream, hvcC set by set and avcC at     *)
(* once, and what demuxers make of a record again.                         *)
(*                                                                         *)
(* A parameter set is a record with its kind and its id; two sets are the  *)
(* same bytes when they are equal.  given is the sets of the stream, got   *)
(* what the last Decode or CovertExtradata gave.                           *)
(***************************************************************************)
EXTENDS Integers, Sequences, SequencesExt, FiniteSetsExt

CONSTANTS
    Sets,    \* the VPSs, SPSs and PPSs of H.265
    AvcSets, \* the spss and ppss a program holds when it asks for an avcC
    Flags,   \* the bits of the compatibility and constraint flags
    M12,     \* 2^12, of min_spatial_segmentation_idc
    M5,      \* 2^5, of the number of SPSs of an avcC
    MaxSets, MaxDecodes \* bounds: sets of a stream, records read

Kinds == {"vps", "sps", "pps"}
ParamAssumption ==
    /\ M12 \in Nat \ {0} /\ M5 \in Nat \ {0, 1} /\ MaxSets \in Nat /\ MaxDecodes \in Nat
    /\ \A s \in Sets : s.kind \in Kinds /\ s.id \in Nat
    /\ \A s \in Sets : s.kind # "pps" => s.flags \subseteq Flags
    /\ \A s \in Sets : s.kind = "sps" => s.minseg \in 0..M12 - 1

VARIABLES
    mux,   \* the HEVCRecordConfiguration of a muxer
    wire,  \* the record it wrote last, or an avcC
    dem,   \* the HEVCRecordConfiguration of a demuxer
    given, \* the parameter sets, in their order
    got    \* what the demuxer gave last

vars == <<mux, wire, dem, given, got>>

HeadFields == <<"tier", "profile", "flags", "level", "minseg", "par", "chroma", "depth", "layers", "nested">>
\* NewHEVCRecordConfiguration
NewRecord ==
    [head |-> [tier |-> 0, profile |-> 0, flags |-> Flags, level |-> 0, minseg |-> M12 + 1, par |-> 0,
               chroma |-> 0, depth |-> 0, layers |-> 0, nested |-> 0],
     arrays |-> <<>>]
NoWire == [codec |-> "none"]
Init ==
    /\ mux = NewRecord /\ wire = NoWire /\ dem = NewRecord
    /\ given = <<>> /\ got = [codec |-> "none", reads |-> 0]

--------------------------------------------------------------------------------
(* hvcC                                                                    *)

\* The array of the type of a set, and in it the place of the set's id: 0 when there is none.
ArrayOf(arrays, kind) == SelectInSeq(arrays, LAMBDA a : a.kind = kind)
UnitOf(units, id) == SelectInSeq(units, LAMBDA u : u.id = id)

\* Mutant: a set is looked for by its bytes, and an old one of its id remains.
PlaceBeside(arrays, s) ==
    LET i == ArrayOf(arrays, s.kind)
    IN  IF i = 0 THEN Append(arrays, [kind |-> s.kind, units |-> <<s>>])
        ELSE IF s \in Range(arrays[i].units) THEN arrays
        ELSE [arrays EXCEPT ![i].units = Append(@, s)]
\* The loops of UpdateVPS, UpdateSPS and UpdatePPS
Place(arrays, s) ==
    LET i == ArrayOf(arrays, s.kind)
        j == UnitOf(arrays[i].units, s.id)
    IN  IF i = 0 THEN Append(arrays, [kind |-> s.kind, units |-> <<s>>])
        ELSE IF j = 0 THEN [arrays EXCEPT ![i].units = Append(@, s)]
        ELSE [arrays EXCEPT ![i].units[j] = s]

Larger(a, b) == IF a > b THEN a ELSE b
Smaller(a, b) == IF a < b THEN a ELSE b

\* Mutant: the level is that of the last set.
PtlLast(h, s) ==
    [h EXCEPT !.tier = Larger(@, s.tier), !.level = s.level, !.profile = Larger(@, s.profile), !.flags = @ \cap s.flags]
\* updatePtl
updatePtl(h, s) ==
    [h EXCEPT !.level = IF h.tier < s.tier THEN s.level ELSE Larger(@, s.level),
              !.tier = Larger(@, s.tier), !.profile = Larger(@, s.profile), !.flags = @ \cap s.flags]

\* needUpdate of the three
HeadAfter(h, s) ==
    CASE s.kind = "vps" -> updatePtl([h EXCEPT !.layers = Larger(@, s.layers)], s)
      [] s.kind = "sps" -> updatePtl([h EXCEPT !.layers = Larger(@, s.layers), !.nested = s.nested, !.chroma = s.chroma,
                                               !.depth = s.depth, !.minseg = Smaller(@, s.minseg)], s)
      [] OTHER -> [h EXCEPT !.par = CASE s.sync /\ s.tiles -> 0 [] s.sync /\ ~s.tiles -> 3
                                      [] ~s.sync /\ s.tiles -> 2 [] OTHER -> 1]

\* UpdateVPS, UpdateSPS, UpdatePPS of a set they can parse
Update(s) ==
    /\ wire.codec # "h264" /\ Len(given) < MaxSets
    /\ given' = Append(given, s)
    /\ LET arrays == Place(mux.arrays, s)
       IN  mux' = IF arrays = mux.arrays THEN mux ELSE [head |-> HeadAfter(mux.head, s), arrays |-> arrays]
    /\ UNCHANGED <<wire, dem, got>>

\* Encode, which also takes back a parallelism type that says nothing
Encode ==
    /\ Len(mux.arrays) >= 3
    /\ LET h == [mux.head EXCEPT !.par = IF mux.head.minseg = 0 THEN 0 ELSE @]
       IN  /\ mux' = [mux EXCEPT !.head = h]
           /\ wire' = [codec |-> "h265", head |-> [h EXCEPT !.minseg = @ % M12], arrays |-> mux.arrays]
    /\ UNCHANGED <<dem, given, got>>

\* A field that is not there any more is read as zero.
ZeroOf(field) == IF field = "flags" THEN {} ELSE 0
HeadOf(w, n) == [field \in DOMAIN w.head |-> IF \E i \in 1..n : HeadFields[i] = field THEN w.head[field] ELSE ZeroOf(field)]

\* Mutant: arrays are appended to the record as they are read.
DecodedInPlace(d, w, n) ==
    [head |-> HeadOf(w, Smaller(n, Len(HeadFields))),
     arrays |-> IF n < Len(HeadFields) THEN d.arrays ELSE SubSeq(w.arrays, 1, n - Len(HeadFields))]
\* The record after a Decode of a header of n fields or of all of them and n - Len(HeadFields) arrays
Decoded(d, w, n) ==
    [head |-> HeadOf(w, Smaller(n, Len(HeadFields))),
     arrays |-> IF n < Len(HeadFields) + Len(w.arrays) THEN d.arrays ELSE w.arrays]

\* Decode by a demuxer whose record may have held another one before, of a record
\* of which `n` pieces are there, and ToNalus
Decode(n) ==
    /\ wire.codec = "h265" /\ got.reads < MaxDecodes
    /\ n \in 0..Len(HeadFields) + Len(wire.arrays)
    /\ dem' = Decoded(dem, wire, n)
    /\ got' = [codec |-> "h265", reads |-> got.reads + 1, err |-> n < Len(HeadFields) + Len(wire.arrays),
               before |-> dem.arrays, nalus |-> FlattenSeq([i \in DOMAIN dem'.arrays |-> dem'.arrays[i].units])]
    /\ UNCHANGED <<mux, wire, given>>

\* Another muxer, which is given the record (go-mkv's extraData) and adds to it
Adopt ==
    /\ got.codec = "h265" /\ ~got.err /\ wire.codec = "h265"
    /\ mux' = dem /\ given' = got.nalus /\ wire' = NoWire
    /\ UNCHANGED <<dem, got>>

--------------------------------------------------------------------------------
(* avcC                                                                    *)

\* Mutant: as many SPSs as there are.
FitsAny(spss, ppss) == spss # <<>> /\ ppss # <<>>
Fits(spss, ppss) == spss # <<>> /\ ppss # <<>> /\ Len(spss) < M5

\* CreateH264AVCCExtradata; a track is of one codec.
CreateH264AVCCExtradata(spss, ppss) ==
    /\ given = <<>> /\ Fits(spss, ppss)
    /\ wire' = [codec |-> "h264", spss |-> spss, ppss |-> ppss, count |-> Len(spss) % M5]
    /\ UNCHANGED <<mux, dem, given, got>>

\* CovertExtradata of a record of which the head and `n` sets, or the number of PPSs
\* among them, are there
CovertExtradata(n) ==
    LET pieces == wire.spss \o <<"number of PPSs">> \o wire.ppss
        whole == n >= wire.count + 1 + Len(wire.ppss)
    IN  /\ wire.codec = "h264" /\ got.reads < MaxDecodes
        /\ n \in 0..Len(pieces)
        /\ got' = [codec |-> "h264", reads |-> got.reads + 1, err |-> ~whole, of |-> <<wire.spss, wire.ppss>>,
                   sets |-> IF whole THEN <<SubSeq(pieces, 1, wire.count), SubSeq(pieces, wire.count + 2, Len(pieces))>>
                            ELSE <<<<>>, <<>>>>]
        /\ UNCHANGED <<mux, wire, dem, given>>

Next ==
    \/ \E s \in Sets : Update(s)
    \/ Encode
    \/ \E n \in 0..Len(HeadFields) + 3 : Decode(n)
    \/ Adopt
    \/ \E a \in AvcSets : CreateH264AVCCExtradata(a.spss, a.ppss)
    \/ wire.codec = "h264" /\ \E n \in 0..Len(wire.spss) + Len(wire.ppss) + 1 : CovertExtradata(n)

Spec == Init /\ [][Next]_vars

--------------------------------------------------------------------------------
(* Properties                                                              *)

\* One array of each type, in it one set of each id.
TypeOK ==
    \A r \in {mux, dem} :
        /\ \A i, k \in DOMAIN r.arrays : r.arrays[i].kind = r.arrays[k].kind => i = k
        /\ \A i \in DOMAIN r.arrays :
               LET units == r.arrays[i].units
               IN  /\ units # <<>> /\ \A j, k \in DOMAIN units : units[j].id = units[k].id => j = k
                   /\ \A u \in Range(units) : u \in Sets /\ u.kind = r.arrays[i].kind
        /\ r.head.minseg \in 0..M12 + 1 /\ r.head.flags \subseteq Flags

\* The sets that are in force after those of a stream: of each kind and id the last.
InForce(sets) ==
    {sets[k] : k \in {k \in DOMAIN sets : \A j \in k + 1..Len(sets) : sets[j].kind # sets[k].kind \/ sets[j].id # sets[k].id}}
SetsOf(arrays) == UNION {Range(arrays[i].units) : i \in DOMAIN arrays}

\* A muxer holds the sets that are in force, those and no others, and what a demuxer
\* makes of a whole record is the muxer's sets, each once; of a part of a record it
\* makes an error, and keeps the sets it had.
GivenAsTaken ==
    /\ SetsOf(mux.arrays) = InForce(given)
    /\ wire.codec = "h265" => \E k \in 0..Len(given) : SetsOf(wire.arrays) = InForce(SubSeq(given, 1, k))
    /\ got.codec = "h265" =>
           /\ got.err => dem.arrays = got.before
           /\ ~got.err => /\ \E k \in 0..Len(given) : Range(got.nalus) = InForce(SubSeq(given, 1, k))
                          /\ Cardinality(Range(got.nalus)) = Len(got.nalus)
    /\ got.codec = "h264" => got.err \/ got.sets = got.of

\* The head of a record promises nothing that a set in it does not keep: its level
\* is not below that of a set of its tier, its flags are those of all its sets.
IndexHonest ==
    wire.codec = "h265" =>
        \A s \in SetsOf(wire.arrays) :
            /\ s.kind # "pps" => /\ wire.head.tier >= s.tier /\ wire.head.profile >= s.profile
                                 /\ wire.head.tier = s.tier => wire.head.level >= s.level
                                 /\ wire.head.flags \subseteq s.flags /\ wire.head.layers >= s.layers
            /\ s.kind = "sps" => wire.head.minseg <= s.minseg
================================================================================
