------------------------------- MODULE MCData -------------------------------
(***************************************************************************)
(* The sequential algorithms, each against its reference.  A behaviour     *)
(* works on one of them, its subject; the others stay as they began.       *)
(***************************************************************************)
EXTENDS NaxAvl, NaxRing, Framing, NaxDict, JessJson, NaxHash

ASSUME StreamsKeepHeads == HeadsKept

ASSUME StreamsFullFits == FullFits

VARIABLE subject

datavars == <<subject, avl, removed, ringvars, framevars, dictvars, jsonvars, hashvars, winvars>>

\* Streams whose heads are one byte, or with no large packet; some have a packet
\* that announces nothing or too much.
SafeStreams ==
  {[head |-> 2, bodies |-> b] : b \in {<<1, 2, 1>>, <<2, 1, 2>>, <<2, 2, 2>>}}
  \cup {[head |-> 3, bodies |-> <<1, 1>>]}
  \cup {[head |-> 2, bodies |-> b] : b \in {<<1, 0, 1>>, <<2, 10>>}}
  \cup {[head |-> 1, bodies |-> b] : b \in {<<1, 5, 2>>, <<5, 6>>, <<9, 3, 1>>, <<5, 10, 1>>}}

\* { } [ ] , : " \ blank a 1 - /, a control character, null, escapes, one of them
\* with a G among its digits
JsonWords ==
  {<<c>> : c \in {123, 125, 91, 93, 44, 58, 34, 92, 32, 97, 49, 45, 1, 47}}
  \cup {NullWord, <<92, 34, 32>>, <<92, 117, 48, 48, 69, 57>>, <<92, 117, 68, 56, 48, 48>>,
        <<92, 117, 48, 48, 48, 48>>, <<92, 117, 48, 48, 71, 49>>}

\* {"a":1,"n":[]}, its members swapped, [-1,""], [{"a":{}}], "\ud800\udc00a",
\* the empty string, a byte order mark and 1, and the empty text
JsonSeeds ==
  {<<123, 34, 97, 34, 58, 49, 44, 34, 110, 34, 58, 91, 93, 125>>,
   <<123, 34, 110, 34, 58, 91, 93, 44, 34, 97, 34, 58, 49, 125>>,
   <<91, 45, 49, 44, 34, 34, 93>>,
   <<91, 123, 34, 97, 34, 58, 123, 125, 125, 93>>,
   <<34, 92, 117, 100, 56, 48, 48, 92, 117, 100, 99, 48, 48, 97, 34>>,
   <<34, 34>>,
   Bom \o <<32, 49>>,
   <<>>}

\* Heads that are cut by a read, empty bodies, bodies over the buffer and over
\* the limit, no template at all.
PortStreams ==
  {[head |-> h, full |-> f, bodies |-> b] : h \in {1, 2}, f \in BOOLEAN,
      b \in {<<1, 2, 1>>, <<0, 2, 10, 1>>}}
  \cup {[head |-> h, full |-> FALSE, bodies |-> b] : h \in {1, 2},
      b \in {<<2, 5, 0>>, <<6, 4>>, <<2, 9, 2>>, <<5, 10, 1>>}}
  \cup {[head |-> 0, full |-> FALSE, bodies |-> <<2, 3, 4>>]}

\* Strings of up to three low, middle and high bytes, the empty one among them,
\* and longer ones of four to seven.
HashInputs ==
  UNION {[1..n -> {0, 129, 254}] : n \in 0..3}
  \cup {<<77, 97, 110, 77>>} \cup {Message(250, n) : n \in 4..7}

\* The published vectors, and DEFAULT_DES_KEY on none, one or more blocks.
HashJobs ==
  {<<Mirrored(v[1]), Mirrored(v[2])>> : v \in DesVectors}
  \cup {<<<<51, 117, 66, 35, 42, 116, 84, 121>>, Message(36, n)>> : n \in {0, 7, 8, 9, 24}}

Init ==
  /\ AvlInit /\ RingInit /\ FrameInit /\ DictInit /\ JsonInit /\ HashInit /\ WinFrameInit
  /\ subject \in {"avl", "ring", "frame", "dict", "json", "hash", "win"}
  \* what is not the subject begins in one way
  /\ subject # "frame" => stream = CHOOSE s \in Streams : TRUE
  /\ subject # "win" => peer = CHOOSE s \in WinStreams : TRUE
  /\ subject # "json" => text = <<>>

Avl   == subject = "avl"   /\ AvlNext
Ring  == subject = "ring"  /\ RingNext
Frame == subject = "frame" /\ FrameNext
Dict  == subject = "dict"  /\ DictNext
Json  == subject = "json"  /\ JsonNext
Hash  == subject = "hash"  /\ HashNext
Win   == subject = "win"   /\ WinFrameNext

Next ==
  \/ Avl   /\ UNCHANGED <<subject, ringvars, framevars, dictvars, jsonvars, hashvars, winvars>>
  \/ Ring  /\ UNCHANGED <<subject, avl, removed, framevars, dictvars, jsonvars, hashvars, winvars>>
  \/ Frame /\ UNCHANGED <<subject, avl, removed, ringvars, dictvars, jsonvars, hashvars, winvars>>
  \/ Dict  /\ UNCHANGED <<subject, avl, removed, ringvars, framevars, jsonvars, hashvars, winvars>>
  \/ Json  /\ UNCHANGED <<subject, avl, removed, ringvars, framevars, dictvars, hashvars, winvars>>
  \/ Hash  /\ UNCHANGED <<subject, avl, removed, ringvars, framevars, dictvars, jsonvars, winvars>>
  \/ Win   /\ UNCHANGED <<subject, avl, removed, ringvars, framevars, dictvars, jsonvars, hashvars>>

Spec == Init /\ [][Next]_datavars
=============================================================================
