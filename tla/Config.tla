--------------------------------- MODULE Config ---------------------------------
(***************************************************************************)
(* From the text of a configuration to the streams and numbers the Runner  *)
(* works with: parse_config_yaml_node, validate_config, expand_replicas.   *)
(* Any error rejects the whole configuration.                              *)
(*                                                                         *)
(* The YAML library (external) is abstracted to the values it finds.  A    *)
(* file of this model writes one number, the choices below and two         *)
(* streams; what it does not write keeps its default.  Text that is not a  *)
(* number where one is expected is one more error.                         *)
(***************************************************************************)
EXTENDS Integers, Sequences, FiniteSets, SequencesExt

CONSTANTS
  SizeRange   \* the numbers a size_t has: 2^64 in the build, less for TLC

ASSUME ConfigAssumption == SizeRange \in Nat /\ SizeRange > 11000

VARIABLES
  reading,   \* where the parser is
  file,      \* what the file says
  numbers,   \* the numbers read so far, by name
  choices,   \* the texts read so far, by name
  models,    \* the model files of the chosen detector
  sources,   \* cfg.streams
  streamIds  \* the ids of the expanded streams

configVars == << reading, file, numbers, choices, models, sources, streamIds >>

Large == 10001

(***************************************************************************)
(* The numbers, by section: how they are read, their default and, for the  *)
(* checked and raised ones, the least value.                               *)
(***************************************************************************)
Number(how, least, default) == [how |-> how, least |-> least, default |-> default]

QueueNumbers ==
  [name \in {"person_detector_in", "face_detector_in", "recognizer_in", "identity_in",
             "anonymizer_in", "frames_in", "person_detections_in", "faces_in",
             "recognitions_in", "identities_in", "encoder_in"} |->
     Number("size", 1, CASE name \in {"frames_in", "encoder_in"} -> 5
                         [] name \in {"person_detections_in", "faces_in", "recognitions_in",
                                      "identities_in"} -> 20
                         [] OTHER -> 50)]

AnonymizerNumbers ==
  [name \in {"anonymizer.model_instances", "pixelation_divisor", "blur_kernel"} |->
     CASE name = "pixelation_divisor" -> Number("checked", 2, 10)
       [] name = "blur_kernel"        -> Number("checked", 3, 31)
       [] OTHER                       -> Number("raised", 1, 1)]

RuntimeNumbers ==
  [name \in {"reorder_window", "pending_state_limit", "jpeg_quality"} |->
     CASE name = "reorder_window"      -> Number("checked", 0, 5)
       [] name = "pending_state_limit" -> Number("size", 1, 500)
       [] OTHER                        -> Number("checked", 1, 75)]

MetricsNumbers == [name \in {"log_interval_ms"} |-> Number("raised", 250, 5000)]

StreamingNumbers ==
  [name \in {"bitrate_kbps", "keyframe_interval", "max_peers_per_stream",
             "ice_gathering_timeout_ms", "session_idle_timeout_s"} |->
     Number("plain", 0, CASE name = "bitrate_kbps" -> 6000
                          [] name = "max_peers_per_stream" -> 2
                          [] name = "ice_gathering_timeout_ms" -> 2000
                          [] OTHER -> 30)]

PersonNumbers == [name \in {"person.model_instances"} |-> Number("raised", 1, 1)]
FaceNumbers == [name \in {"face.model_instances"} |-> Number("raised", 1, 1)]
YunetNumbers == [name \in {"yunet.ncnn_threads"} |-> Number("plain", 0, 1)]
ScrfdNumbers == [name \in {"scrfd.ncnn_threads"} |-> Number("plain", 0, 1)]
YoloxNumbers == [name \in {"yolox.input_w", "yolox.ncnn_threads"} |->
                   Number("plain", 0, IF name = "yolox.input_w" THEN 640 ELSE 1)]
UhdNumbers == [name \in {"uhd.input_w", "uhd.ncnn_threads"} |->
                   Number("plain", 0, IF name = "uhd.input_w" THEN 64 ELSE 1)]
TrackerNumbers == [name \in {"track_buffer", "max_missed"} |->
                   Number("plain", 0, IF name = "track_buffer" THEN 100 ELSE 20)]
GridNumbers == [name \in {"grid.rows", "grid.cols"} |->
                   Number("plain", 0, IF name = "grid.rows" THEN 6 ELSE 8)]

RecognizerNumbers ==
  [name \in {"recognizer.model_instances", "recognizer.input_w", "embedding_dim",
             "cache_ttl_frames", "min_face_score"} |->
     CASE name = "recognizer.model_instances" -> Number("raised", 1, 1)
       [] name = "recognizer.input_w"         -> Number("plain", 0, 112)
       [] name = "embedding_dim"              -> Number("plain", 0, 128)
       [] name = "cache_ttl_frames"           -> Number("plain", 0, 900)
       [] OTHER                               -> Number("plain", 0, 1)]

IdentityNumbers == [name \in {"identity.model_instances"} |-> Number("raised", 1, 1)]

Sections ==
  << StreamingNumbers, QueueNumbers, AnonymizerNumbers, RuntimeNumbers, YunetNumbers,
     ScrfdNumbers, YoloxNumbers, UhdNumbers, PersonNumbers, GridNumbers, TrackerNumbers,
     FaceNumbers, RecognizerNumbers, IdentityNumbers, MetricsNumbers >>

Names == UNION {DOMAIN Sections[s] : s \in DOMAIN Sections}
Info(name) == (CHOOSE s \in {Sections[i] : i \in DOMAIN Sections} : name \in DOMAIN s)[name]

\* The numbers at the edges of what is accepted.
Edges == {-1, 0, 1, 2, 3, 100, 101, 112, 249, 250, 10000, Large}

\* get_size_t_min; the mutant casts before it compares.
Size_Cast(info, n) == [ok |-> n % SizeRange >= info.least, value |-> n % SizeRange]
Size(info, n) == [ok |-> n >= info.least, value |-> n]

ReadNumber(info, n) ==
  CASE info.how = "size"    -> Size(info, n)
    [] info.how = "checked" -> [ok |-> n >= info.least, value |-> n]
    [] info.how = "raised"  -> [ok |-> TRUE, value |-> IF n < info.least THEN info.least ELSE n]
    [] info.how = "plain"   -> [ok |-> TRUE, value |-> n]

(***************************************************************************)
(* The choices of a file.                                                  *)
(***************************************************************************)
Absent == "absent"

\* The keys of a detector's model: its variant, the directory, and the two
\* files of the network.
ModelKeys == [variant : {Absent, "tiny", "other"}, model_path : BOOLEAN,
              param_path : BOOLEAN, bin_path : BOOLEAN]

\* Where the two files come from.
Yolox(k) ==
  LET profile == IF k.variant = "tiny" THEN "tiny" ELSE "nano"
      derived == k.model_path /\ ~k.param_path /\ ~k.bin_path
  IN [param |-> CASE derived -> "directory" [] k.param_path -> "written" [] OTHER -> profile,
      bin   |-> CASE derived -> "directory" [] k.bin_path -> "written" [] OTHER -> profile]

Uhd(k) == Yolox([k EXCEPT !.variant = Absent])

\* An unknown variant keeps the files of the default one; its detector
\* refuses it later.
Scrfd(k) ==
  [param |-> IF k.param_path THEN "written" ELSE IF k.variant = "tiny" THEN "tiny" ELSE "nano",
   bin   |-> IF k.bin_path THEN "written" ELSE IF k.variant = "tiny" THEN "tiny" ELSE "nano"]

\* An id is a text and the numbers after it: a_1 is << "a", 1 >>.  A list
\* of replicas' ids may name any id, those of streams and numbered ones too.
OwnIds == {<< "a" >>, << "b" >>, << "a", 1 >>}
GivenIds == SeqOf(OwnIds \cup {<< "c" >>}, 2)

StreamKeys ==
  [id : OwnIds, type : {"rtsp", "webcam", "file"}, valid : BOOLEAN, output : BOOLEAN,
   profiles : BOOLEAN, fps : {0, 30}, count : {0, 2}, ids : GivenIds]

PlainStream == [id |-> << "a" >>, type |-> "file", valid |-> TRUE, output |-> FALSE,
                profiles |-> FALSE, fps |-> 0, count |-> 0, ids |-> << >>]

PlainFile ==
  [name |-> "none", number |-> 0, modules |-> TRUE, legacy |-> FALSE, face |-> Absent,
   recognizer |-> "noop", detector |-> "yolox", model |->
     [variant |-> Absent, model_path |-> FALSE, param_path |-> FALSE, bin_path |-> FALSE],
   mode |-> "person_bbox", primary |-> "webrtc", method |-> "pixelate",
   streams |-> << PlainStream >>]

\* A file varies one number with the module choices, its texts, its model
\* files, or its streams.
NumberFiles ==
  {[PlainFile EXCEPT !.name = n, !.number = e, !.face = f, !.recognizer = r] :
     n \in Names, e \in Edges, f \in {"disabled", "scrfd"}, r \in {"noop", "mobilefacenet"}}

ChoiceFiles ==
  {[PlainFile EXCEPT !.modules = m, !.legacy = l, !.face = f, !.mode = a,
                     !.primary = p, !.method = o] :
     m \in BOOLEAN, l \in BOOLEAN, f \in {Absent, "disabled", "scrfd"},
     a \in {"person_bbox", "independent", "other"}, p \in {"webrtc", "mjpeg", "other"},
     o \in {"pixelate", "blur", "other"}}

ModelFiles ==
  {[PlainFile EXCEPT !.detector = d, !.model = k] :
     d \in {"yolox", "uhd", "scrfd"}, k \in ModelKeys}

NamedStreams ==
  {[PlainStream EXCEPT !.id = j, !.count = c, !.ids = i] :
     j \in OwnIds, c \in {0, 2}, i \in GivenIds}
TwoStreams == NamedStreams \X NamedStreams

StreamFiles ==
  {[PlainFile EXCEPT !.streams = ss] :
     ss \in {<< >>} \cup {<< s >> : s \in StreamKeys} \cup TwoStreams}

Files == NumberFiles \cup ChoiceFiles \cup ModelFiles \cup StreamFiles

ConfigInit ==
  /\ reading = "text"
  /\ file = PlainFile
  /\ numbers = << >>
  /\ choices = << >>
  /\ models = [param |-> "nano", bin |-> "nano"]
  /\ sources = << >>
  /\ streamIds = << >>

Reject == reading' = "rejected" /\ UNCHANGED << numbers, choices, models, sources, streamIds >>

\* YAML::Load, and the numbers of all sections in turn.
ReadText ==
  /\ reading = "text"
  /\ file' \in Files
  /\ \/ Reject
     \/ reading' = "numbers"
        /\ UNCHANGED << numbers, choices, models, sources, streamIds >>

\* The first number that is refused rejects the file.
ReadNumbers ==
  /\ reading = "numbers"
  /\ LET read(name) == IF name = file.name THEN ReadNumber(Info(name), file.number)
                       ELSE [ok |-> TRUE, value |-> Info(name).default]
     IN IF \A name \in Names : read(name).ok
        THEN /\ numbers' = [name \in Names |-> read(name).value]
             /\ reading' = "modules"
             /\ UNCHANGED << choices, models, sources, streamIds >>
        ELSE Reject
  /\ UNCHANGED file

\* modules: keys of earlier versions are refused; faces are off unless the
\* file has a face detector that is enabled, but on when it has no modules.
ReadModules ==
  /\ reading = "modules"
  /\ IF file.modules /\ file.legacy THEN Reject
     ELSE /\ choices' = [face |-> IF ~file.modules THEN "scrfd"
                                  ELSE IF file.face = "scrfd" THEN "scrfd" ELSE "none",
                         recognizer |-> IF file.modules THEN file.recognizer ELSE "noop",
                         mode |-> IF file.modules /\ file.face # Absent
                                  THEN file.mode ELSE "person_bbox",
                         primary |-> file.primary, method |-> file.method]
          /\ models' = CASE file.detector = "yolox" -> Yolox(file.model)
                         [] file.detector = "uhd" -> Uhd(file.model)
                         [] OTHER -> Scrfd(file.model)
          /\ reading' = "streams"
          /\ UNCHANGED << numbers, sources, streamIds >>
  /\ UNCHANGED file

\* One source each: an address, or a device with a size and a rate.
SourceIsValid(s) == s.type = "file" \/ s.valid
OutputsAreValid(s) == ~s.output /\ (s.profiles => s.fps > 0)

ReadStreams ==
  /\ reading = "streams"
  /\ IF file.streams # << >> /\ \A i \in DOMAIN file.streams :
          SourceIsValid(file.streams[i]) /\ OutputsAreValid(file.streams[i])
     THEN /\ sources' = [i \in DOMAIN file.streams |->
                [id |-> file.streams[i].id, ids |-> file.streams[i].ids,
                 count |-> IF file.streams[i].count < 1 THEN 1 ELSE file.streams[i].count]]
          /\ reading' = "validate"
          /\ UNCHANGED << numbers, choices, models, streamIds >>
     ELSE Reject
  /\ UNCHANGED file

(***************************************************************************)
(* validate_config.                                                        *)
(***************************************************************************)
\* The fallback and the codec are checked as the primary is.
StreamingIsValid ==
  /\ choices.primary \in {"webrtc", "mjpeg"}
  /\ \A name \in DOMAIN StreamingNumbers : numbers[name] >= 1
  /\ numbers["ice_gathering_timeout_ms"] >= 250
  /\ numbers["ice_gathering_timeout_ms"] <= 10000

RuntimeIsValid ==
  /\ \A name \in DOMAIN QueueNumbers : numbers[name] >= 1
  /\ numbers["reorder_window"] >= 0 /\ numbers["pending_state_limit"] >= 1
  /\ numbers["jpeg_quality"] \in 1..100
  /\ numbers["anonymizer.model_instances"] >= 1
  /\ choices.method \in {"pixelate", "blur"}
  /\ numbers["pixelation_divisor"] >= 2 /\ numbers["blur_kernel"] >= 3

ModulesAreValid ==
  /\ \A name \in {"person.model_instances", "yunet.ncnn_threads", "scrfd.ncnn_threads",
                  "yolox.ncnn_threads", "uhd.input_w", "uhd.ncnn_threads",
                  "recognizer.model_instances", "recognizer.input_w", "embedding_dim",
                  "cache_ttl_frames", "identity.model_instances"} : numbers[name] >= 1
  /\ numbers["min_face_score"] >= 0
  /\ choices.face # "none" =>
       choices.mode \in {"person_bbox", "independent"} /\ numbers["face.model_instances"] >= 1
  /\ choices.recognizer = "mobilefacenet" =>
       numbers["recognizer.input_w"] = 112 /\ numbers["embedding_dim"] = 128

Validate ==
  /\ reading = "validate"
  /\ IF StreamingIsValid /\ RuntimeIsValid /\ ModulesAreValid
     THEN reading' = "expand" /\ UNCHANGED << numbers, choices, models, sources, streamIds >>
     ELSE Reject
  /\ UNCHANGED file

\* The ids of a stream's replicas: those given, then numbered ones.
ReplicaIds(s) ==
  IF s.count = 1 THEN << s.id >>
  ELSE [i \in 1..s.count |-> IF i <= Len(s.ids) THEN s.ids[i] ELSE Append(s.id, i - 1)]

ExpandReplicas ==
  /\ reading = "expand"
  /\ streamIds' = FlattenSeq([i \in DOMAIN sources |-> ReplicaIds(sources[i])])
  /\ reading' = "accepted"
  /\ UNCHANGED << file, numbers, choices, models, sources >>

ConfigNext ==
  ReadText \/ ReadNumbers \/ ReadModules \/ ReadStreams \/ Validate \/ ExpandReplicas

ConfigSpec == ConfigInit /\ [][ConfigNext]_configVars

-----------------------------------------------------------------------------
\* What the components take for granted of their parameters: the capacities
\* of BoundedQueue, the window and the limit of StreamCoordinator, the peers
\* of WebRTCPublisher, the pools of PipelineRuntime, the cache's life time.
ComponentsNeed ==
  /\ \A name \in DOMAIN QueueNumbers : numbers[name] >= 1
  /\ numbers["reorder_window"] >= 0 /\ numbers["pending_state_limit"] >= 1
  /\ numbers["max_peers_per_stream"] >= 1
  /\ \A name \in {"person.model_instances", "face.model_instances", "cache_ttl_frames",
                  "recognizer.model_instances", "identity.model_instances",
                  "anonymizer.model_instances"} : numbers[name] >= 1
  /\ choices.face # "none" => choices.mode \in {"person_bbox", "independent"}

\* The ids a stream of the file has written for its replicas, and the ones
\* made up for the others.
WrittenIds(s) == IF s.count = 1 THEN {s.id} ELSE ToSet(s.ids)
NumberedIds(s) ==
  IF s.count = 1 THEN {} ELSE {Append(s.id, n) : n \in Len(s.ids)..(s.count - 1)}

\* A file that writes one id twice, in one list or for two streams, or
\* writes an id that is also made up; or replicates two streams of one id.
IdsClash ==
  \E i, j \in DOMAIN sources :
    LET s == sources[i]
        t == sources[j]
    IN \/ i # j /\ WrittenIds(s) \cap WrittenIds(t) # {}
       \/ WrittenIds(s) \cap NumberedIds(t) # {}
       \/ i # j /\ s.id = t.id /\ NumberedIds(s) \cap NumberedIds(t) # {}
       \/ s.count > 1 /\ \E k, l \in DOMAIN s.ids : k # l /\ s.ids[k] = s.ids[l]

IdsDiffer == \A k, l \in DOMAIN streamIds : k # l => streamIds[k] # streamIds[l]

\* Every accepted configuration suits the components, each number in it is
\* the one that was written, or the least one where the parser raises it,
\* and the two files of a network belong together unless the file names only
\* one of them.  Expanding replicas adds no clash of ids and removes none:
\* two streams share an id exactly when the file has them clash.  Such a file
\* is accepted, for nothing compares ids, and the pipeline would start the
\* threads of such a stream twice.
AcceptedIsUsable ==
  reading = "accepted" =>
    /\ ComponentsNeed
    /\ file.name # "none" =>
         \/ numbers[file.name] = file.number
         \/ Info(file.name).how = "raised" /\ file.number < numbers[file.name]
    /\ models.param = models.bin \/ file.model.param_path # file.model.bin_path
    /\ streamIds # << >>
    /\ IdsDiffer <=> ~IdsClash
===============================================================================
