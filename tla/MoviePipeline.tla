---------------------------- MODULE MoviePipeline ----------------------------
(***************************************************************************)
(* What NX_MPOpen builds: the GStreamer elements it makes for a content,   *)
(* those that get into the bin, and whether each track of the content has  *)
(* a path from its source to its sink.                                     *)
(*                                                                         *)
(* GStreamer is external.  The list of gst_bin_add_many and that of        *)
(* gst_element_link_many end at the first NULL, be it the one that closes  *)
(* the list or an element that was not made.  A link fails between an      *)
(* element in the bin and one outside.                                     *)
(***************************************************************************)
EXTENDS Sequences, SequencesExt

Demuxers == {"ts", "ps",
             "qt",       \* TYPE_3GP and DEMUX_TYPE_QTDEMUX
             "other",    \* those with a demuxer and no parser
             "unknown"}  \* those that demux_element_search has no case for
Audios == {"ac3", "flac", "dts",
           "other"}      \* those that a decodebin decodes

\* TymediaInfo as far as it decides what is built: type is that of the selected
\* audio track, first that of the track whose pad the demuxer adds first.
Contents == {c \in [video : BOOLEAN, audio : BOOLEAN, demux : Demuxers,
                    type : Audios, first : Audios] : c.video \/ c.audio}
AudioOnly(c) == ~c.video
VideoOnly(c) == ~c.audio

AudioRequired == {"audio_queue", "audio_decoder", "volume", "audio_convert",
                  "audio_sink"}
VideoRequired == {"video_queue", "video_decoder", "video_sink"}

\* The element that its factory cannot make, if any; without a volume the
\* program is aborted.
Missing == (AudioRequired \cup VideoRequired \cup
            {"none", "input_src", "demuxer", "audio_parse", "video_parse"})
             \ {"volume"}

-----------------------------------------------------------------------------

Parsed(c) == c.type \in {"ac3", "flac", "dts"}
Program(c) == c.demux \in {"ps", "ts"}

\* mutant: no parser for FLAC
ParsersMadeAC3(c) ==
  IF c.type = "ac3" \/ (c.type = "dts" /\ AudioOnly(c)) THEN {"audio_parse"} ELSE {}

\* audio_element_set makes no parser for DTS; audio_only_element_set does.
ParsersMade(c) ==
  IF c.type \in {"ac3", "flac"} \/ (c.type = "dts" /\ AudioOnly(c))
  THEN {"audio_parse"} ELSE {}

\* demux_element_search.
DemuxElements(c) ==
  (IF c.demux = "unknown" THEN {} ELSE {"demuxer"})
    \cup (IF c.demux \in {"ts", "ps", "qt"} THEN {"video_parse"} ELSE {})

Made(c, missing) ==
  ({"input_src"}
    \cup (IF c.audio THEN AudioRequired \cup ParsersMade(c) ELSE {})
    \cup (IF c.video THEN VideoRequired \cup DemuxElements(c) ELSE {})) \ {missing}

\* Open looks for these before it goes on; the parsers are not among them.
Required(c) ==
  {"input_src"}
    \cup (IF c.audio THEN AudioRequired ELSE {})
    \cup (IF c.video THEN VideoRequired \cup {"demuxer"} ELSE {})

VideoQueuePath(c) ==
  IF Program(c) THEN <<"video_queue", "video_parse", "video_decoder", "video_sink">>
  ELSE <<"video_queue", "video_decoder", "video_sink">>
VideoPath(c) == <<"input_src", "demuxer">> \o VideoQueuePath(c)
AudioTail(parse) ==
  (IF parse THEN <<"audio_parse">> ELSE <<>>)
    \o <<"audio_decoder", "volume", "audio_convert", "audio_sink">>

\* The lists that are added to the bin.
AudioOnlyList(c) == <<"input_src", "audio_queue">> \o AudioTail(Parsed(c))
VideoOnlyList(c) == VideoPath(c)
VideoAudioList(c) ==
  VideoPath(c) \o <<"audio_queue">>
    \o AudioTail(IF Program(c) THEN c.type = "ac3" ELSE Parsed(c))

UpToNull(list, made) ==
  LET end == SelectInSeq(list, LAMBDA e : e \notin made)
  IN  IF end = 0 THEN list ELSE SubSeq(list, 1, end - 1)

AddMany(list, made) == ToSet(UpToNull(list, made))

Bin(c, made) ==
  AddMany(IF AudioOnly(c) THEN AudioOnlyList(c)
          ELSE IF VideoOnly(c) THEN VideoOnlyList(c) ELSE VideoAudioList(c), made)

\* Links what comes before the first NULL, and reports FALSE only when that is none
\* or one, or at a link that fails.
LinkMany(list, made, bin) ==
  LET linked == UpToNull(list, made)
  IN  /\ Len(linked) >= 2
      /\ \A i \in 1 .. Len(linked) - 1 : linked[i] \in bin <=> linked[i + 1] \in bin

\* The links that Open looks at.
AudioOnlyLinked(c, made, bin) ==
  IF Parsed(c) THEN LinkMany(AudioOnlyList(c), made, bin)
  ELSE /\ LinkMany(<<"input_src", "audio_queue", "audio_decoder">>, made, bin)
       /\ LinkMany(<<"volume", "audio_convert", "audio_sink">>, made, bin)
VideoLinked(c, made, bin) ==
  /\ LinkMany(<<"input_src", "demuxer">>, made, bin)
  /\ LinkMany(VideoQueuePath(c), made, bin)

\* Is every link of the path made?  The one from a demuxer to its queues, and from
\* a decodebin to the volume, are made when their pads come.  (The list that links
\* the audio path beside a video lacks its closing NULL: all of its links are made,
\* or refused, before what follows it is read.)
Whole(path, bin) == ToSet(path) \subseteq bin
VideoWhole(c, bin) == Whole(VideoPath(c), bin)
AudioWhole(c, bin) ==
  Whole((IF AudioOnly(c) THEN <<"input_src">> ELSE <<>>)
          \o <<"audio_queue">> \o AudioTail(Parsed(c)), bin)

\* on_demux_pad_added links the first audio pad to the queue, and fails to link the
\* others; the decoder was chosen for the selected track.
PadFits(c) == AudioOnly(c) \/ c.type \in {"other", c.first}

\* What Open makes of a content, before it asks the pipeline to become READY.  With
\* a video track it does not look at what became of the audio links.
Built(c, missing) ==
  LET made == Made(c, missing)
      bin == Bin(c, made)
  IN  [ok |-> /\ Required(c) \subseteq made
              /\ IF AudioOnly(c) THEN AudioOnlyLinked(c, made, bin)
                 ELSE VideoLinked(c, made, bin),
       video |-> c.video => VideoWhole(c, bin),
       audio |-> c.audio => AudioWhole(c, bin) /\ PadFits(c),
       \* the cases in which the sound is known to be cut off: its parser is missing;
       \* or beside a video it is not made, not added, or of another track's type
       mute |-> /\ c.audio /\ Parsed(c)
                /\ \/ missing = "audio_parse"
                   \/ /\ c.video
                      /\ \/ c.type = "dts" \/ (c.type = "flac" /\ Program(c))
                         \/ c.first # c.type]

=============================================================================
