----------------------------- MODULE MCRecords -------------------------------
(* From the packets of the Q330 to the records of the archive: the parts of  *)
(* lib330 that make records, detections, continuity and statistics of what   *)
(* the data link takes. They share no state that both change within a step, so a *)
(* behaviour is one of a single part, chosen by the initial state; each part *)
(* is checked by itself, all of them in one run.                             *)
EXTENDS Compress

CONSTANT Parts                 \* the parts this run checks

VARIABLE part                  \* the one that runs

Jumps == {-5, 0, 4}
Slow == <<[rate |-> -2, fdec |-> 2, flen |-> 4], [rate |-> -4, fdec |-> 2, flen |-> 3]>>
Fast == <<[rate |-> 2, fdec |-> 2, flen |-> 4]>>
PartSizes == [p \in {"SYSTEM", "LCQ1", "LCQ2", "FIR1", "RING1"} |->
                CASE p = "SYSTEM" -> 1 [] p = "FIR1" -> 4 [] p = "RING1" -> 3 [] OTHER -> 2]
Eighths == [th1 |-> 20, th2 |-> 13, th3 |-> 7, thx |-> 31]
OpaqueMessages == {<<33>>, <<436>>, <<100, 102, 30>>}
Statistic(name, src) == [name |-> name, src |-> src]
StatTokens == {[log |-> "LOG", stats |-> <<Statistic("ACA", "duty"), Statistic("ACB", "sent")>>],
               [log |-> "MSG", stats |-> <<Statistic("ACA", "duty")>>]}
DutyTokens == {[log |-> "LOG", stats |-> <<Statistic("ACA", "duty")>>], [log |-> "MSG", stats |-> << >>]}

(* Three samples whose differences range from none to more than a word holds. *)
(* More samples than the ring holds. *)
VARIABLES
  peek_peeks, peek_next_in, peek_next_out, peek_peek_total, peek_ctabx,
  peek_last_sample, peek_loops, peek_window, peek_packed, peek_word, peek_fed

Peeks == INSTANCE Compress WITH
  Samples <- {0, 600000000}, PEEKELEMS <- 7, MaxSamples <- 8, peeks <- peek_peeks,
  next_in <- peek_next_in, next_out <- peek_next_out, peek_total <- peek_peek_total,
  ctabx <- peek_ctabx, last_sample <- peek_last_sample, loops <- peek_loops,
  window <- peek_window, packed <- peek_packed, word <- peek_word, fed <- peek_fed

(* Records of two frames of four words; time jumps forward and back. *)
VARIABLES
  q, times, waiting, out, seconds, input

FourHz == INSTANCE Record WITH
  Rate <- 4, MAXSAMPPERWORD <- 3, WORDS_PER_FRAME <- 5, MaxFrames <- 2, GapSecs <- 3,
  Jumps <- Jumps, Quals <- {1, 2}, FirstTag <- 10, MaxSeconds <- 4

OneHz == INSTANCE Record WITH
  Rate <- 1, MAXSAMPPERWORD <- 3, WORDS_PER_FRAME <- 5, MaxFrames <- 2, GapSecs <- 3,
  Jumps <- Jumps, Quals <- {1, 2}, FirstTag <- 10, MaxSeconds <- 6

(* Channels below one sample a second, and channels above. *)
VARIABLES
  derived_data_timetag, root, chs, discs, called, skipped, gaps, derived_starts

Slower == INSTANCE Derived WITH
  RootRate <- 1, Chain <- Slow, RecordSamples <- 3, MaxGaps <- 2, MaxStarts <- 1,
  LongestGap <- 6, LastSecond <- 20, data_timetag <- derived_data_timetag,
  starts <- derived_starts

Faster == INSTANCE Derived WITH
  RootRate <- 4, Chain <- Fast, RecordSamples <- 3, MaxGaps <- 2, MaxStarts <- 1,
  LongestGap <- 6, LastSecond <- 10, data_timetag <- derived_data_timetag,
  starts <- derived_starts

(* Archival records of six units. *)
VARIABLES
  pack_class, incremental, cnpp, existing_record, appended, pcfr, hdr, stored,
  taken, archive_starts

Archives == INSTANCE Archive WITH
  SIZE <- 6, GAP <- 1, MESSAGES <- 3, HOUR <- 10, TIMING_SIZE <- 2, Sizes <- {1, 2},
  BlocketteCounts <- {0, 2}, Counts <- {2}, Delays <- {0, 1, 4},
  OnlyBlockettes <- FALSE, MaxRecords <- 3, MaxStarts <- 1, starts <- archive_starts

(* Sizes around those that just fit. *)
VARIABLES
  opaque_ring, cfg_timer, rest, opaque_last_sample, sent, added

Configuration == INSTANCE Opaque WITH
  Sizes <- {60, 97, 436}, cfgsize <- 900, Messages <- {}, CFG_TIMEOUT <- 2,
  MaxAdded <- 6, ring <- opaque_ring, last_sample <- opaque_last_sample

SerialData == INSTANCE Opaque WITH
  Sizes <- {}, cfgsize <- 900, Messages <- OpaqueMessages, CFG_TIMEOUT <- 2,
  MaxAdded <- 5, ring <- opaque_ring, last_sample <- opaque_last_sample

(* Two channels, one with a filter and a ring, with and without crashes. *)
VARIABLES
  continuity_phase, channels, contingood, first_data, conthead, contfree, allocsize,
  q330cont_updated, continuity_file, latest, reboots, continuity_starts

Continuing == INSTANCE Continuity WITH
  Parts <- <<"LCQ1", "FIR1", "LCQ2">>, RingPart <- "RING1", Size <- PartSizes,
  Crashes <- FALSE, TornWrites <- FALSE, MediaErrors <- FALSE, MaxSecond <- 3,
  MaxReboots <- 1, MaxStarts <- 3, MaxBuffers <- 6, phase <- continuity_phase,
  file <- continuity_file, starts <- continuity_starts

Crashing == INSTANCE Continuity WITH
  Parts <- <<"LCQ1", "FIR1", "LCQ2">>, RingPart <- "RING1", Size <- PartSizes,
  Crashes <- TRUE, TornWrites <- TRUE, MediaErrors <- TRUE, MaxSecond <- 3,
  MaxReboots <- 1, MaxStarts <- 2, MaxBuffers <- 6, phase <- continuity_phase,
  file <- continuity_file, starts <- continuity_starts

(* Two statistics and tokens that have one or both, for two starts; for three, *)
(* in which a channel goes on twice, one statistic and tokens with or without. *)
VARIABLES
  threadcontinuity_phase, dplcqs, msg_lcq, ds_lcq, log_seedname,
  threadcontinuity_file, threadcontinuity_starts, given, kept

Threads == INSTANCE ThreadContinuity WITH
  Stats <- {"duty"}, TokenSets <- DutyTokens, LOG <- "LOG", Blank <- "blank",
  None <- "none", Msg <- "message", TornWrites <- FALSE, MediaErrors <- FALSE,
  MaxStarts <- 3, MaxRecords <- 2, phase <- threadcontinuity_phase,
  file <- threadcontinuity_file, starts <- threadcontinuity_starts

Media == INSTANCE ThreadContinuity WITH
  Stats <- {"duty", "sent"}, TokenSets <- StatTokens, LOG <- "LOG", Blank <- "blank",
  None <- "none", Msg <- "message", TornWrites <- FALSE, MediaErrors <- TRUE,
  MaxStarts <- 2, MaxRecords <- 1, phase <- threadcontinuity_phase,
  file <- threadcontinuity_file, starts <- threadcontinuity_starts

(* Every expression of two levels over two inputs. *)
VARIABLES
  tree, pdetop, ctrldet_on, ison, ctrldet_gen_on

ControlDetector == INSTANCE CtrlDet WITH
  Inputs <- {"DET", "CAL"}, Depth <- 2, on <- ctrldet_on, gen_on <- ctrldet_gen_on

(* Samples at and beyond the upper limit. *)
VARIABLES
  threshold_tcs, threshold_sam_no, threshold_remaining, threshold_have_detection,
  threshold_result, threshold_onset, threshold_detector_on,
  threshold_detector_enabled, threshold_pc, threshold_overs, threshold_quiet,
  threshold_seen, threshold_onsets

Levels == INSTANCE Threshold WITH
  Samples <- 0 .. 2, filhi <- 1, fillo <- -9, iwin <- 0, n_hits <- 2, wait_blk <- 2,
  DataPts <- 3, tcs <- threshold_tcs, sam_no <- threshold_sam_no,
  remaining <- threshold_remaining, have_detection <- threshold_have_detection,
  result <- threshold_result, onset <- threshold_onset,
  detector_on <- threshold_detector_on,
  detector_enabled <- threshold_detector_enabled, pc <- threshold_pc,
  overs <- threshold_overs, quiet <- threshold_quiet, seen <- threshold_seen,
  onsets <- threshold_onsets

(* Samples beyond either limit. *)
VARIABLES
  limits_tcs, limits_sam_no, limits_remaining, limits_have_detection, limits_result,
  limits_onset, limits_detector_on, limits_detector_enabled, limits_pc,
  limits_overs, limits_quiet, limits_seen, limits_onsets

Limits == INSTANCE Threshold WITH
  Samples <- -2 .. 2, filhi <- 1, fillo <- -1, iwin <- 0, n_hits <- 2, wait_blk <- 2,
  DataPts <- 3, tcs <- limits_tcs, sam_no <- limits_sam_no,
  remaining <- limits_remaining, have_detection <- limits_have_detection,
  result <- limits_result, onset <- limits_onset, detector_on <- limits_detector_on,
  detector_enabled <- limits_detector_enabled, pc <- limits_pc,
  overs <- limits_overs, quiet <- limits_quiet, seen <- limits_seen,
  onsets <- limits_onsets

(* Weak and strong values, in windows of six. *)
VARIABLES
  murdock_con, murdock_onset, murdock_hits, murdock_reported

Onsets == INSTANCE Murdock WITH
  E_B <- 30, Classes <- {0, 2}, Scs <- {1}, filhi <- 0, fillo <- 4, iwin <- 6,
  n_hits <- 4, wait_blk <- 5, NOR_OUT <- 4, EV_OFF <- 2, Rate <- 1, MaxValues <- 13,
  con <- murdock_con, onset <- murdock_onset, hits <- murdock_hits,
  reported <- murdock_reported

(* Values weak and below the threshold. *)
VARIABLES
  hits_con, hits_onset, hits_hits, hits_reported

Hits == INSTANCE Murdock WITH
  E_B <- 11, Classes <- {0, 1}, Scs <- {1}, filhi <- 1, fillo <- 4, iwin <- 6,
  n_hits <- 4, wait_blk <- 9, NOR_OUT <- 4, EV_OFF <- 2, Rate <- 1, MaxValues <- 10,
  con <- hits_con, onset <- hits_onset, hits <- hits_hits, reported <- hits_reported

(* Samples that turn or not, over four records of two; the noise is measured anew after two swings. *)
VARIABLES
  peaks_con, peaks_sam_no, values, peaks_seen

Turning == INSTANCE Peaks WITH
  Samples <- {-2, 0, 1}, DataPts <- 2, Width <- 16, SHIFT <- 4, CUR_MAX <- 3,
  Swings <- 2, val_avg <- 2, Noise <- 30, xth <- Eighths, MaxSamples <- 7,
  con <- peaks_con, sam_no <- peaks_sam_no, seen <- peaks_seen

(* Five samples a second, four to a detection. *)
VARIABLES
  arrived, insamps, sampcnt, detectbuffer_sam_no, detectbuffer_remaining, itc,
  new_onset, detectbuffer_have_detection, detectbuffer_result,
  detectbuffer_detector_on, first_detection, detection_declared, detectbuffer_pc,
  last, detectbuffer_quiet

Buffer == INSTANCE DetectBuffer WITH
  Rate <- 5, Processed <- FALSE, MINPOINTS <- 4, MaxSamples <- 20,
  sam_no <- detectbuffer_sam_no, remaining <- detectbuffer_remaining,
  have_detection <- detectbuffer_have_detection, result <- detectbuffer_result,
  detector_on <- detectbuffer_detector_on, pc <- detectbuffer_pc,
  quiet <- detectbuffer_quiet

(* Days of two hours of two minutes; a stop of up to a day and a quarter. *)
VARIABLES
  up, accum, minutes, hours, stat_minutes, stat_hours, total_minutes, stats_file, down,
  recent, ran, stats_starts

Statistics == INSTANCE OpStats WITH
  MinutesPerHour <- 2, HoursPerDay <- 2, MaxEfficiency <- 10, Crashes <- TRUE,
  MaxDown <- 5, MaxMinutes <- 6, MaxStarts <- 2,
  file <- stats_file, starts <- stats_starts

ASSUME Parameters ==
  /\ Parts \subseteq {"compress", "peek", "record", "onehz", "slow",
                    "fast", "archive", "config", "serial", "continuity", "crash",
                    "thread", "media", "control", "threshold", "limits", "murdock",
                    "hits", "peaks", "buffer", "statistics"}
  /\ CompressAssumption /\ Peeks!CompressAssumption /\ FourHz!RecordAssumption
  /\ OneHz!RecordAssumption
  /\ Slower!DerivedAssumption /\ Faster!DerivedAssumption
  /\ Archives!ArchiveAssumption /\ Configuration!OpaqueAssumption
  /\ SerialData!OpaqueAssumption /\ Continuing!ContinuityAssumption
  /\ Crashing!ContinuityAssumption /\ Threads!ThreadContinuityAssumption
  /\ Threads!ThreadContinuityAssumption /\ Media!ThreadContinuityAssumption
  /\ ControlDetector!CtrlDetAssumption
  /\ Levels!ThresholdAssumption /\ Limits!ThresholdAssumption
  /\ Onsets!MurdockAssumption /\ Hits!MurdockAssumption /\ Turning!PeaksAssumption
  /\ Buffer!DetectBufferAssumption /\ Statistics!OpStatsAssumption

peek_vars == <<peek_peeks, peek_next_in, peek_next_out, peek_peek_total, peek_ctabx,
  peek_last_sample, peek_loops, peek_window, peek_packed, peek_word, peek_fed>>
record_vars == <<q, times, waiting, out, seconds, input>>
derived_vars == <<derived_data_timetag, root, chs, discs, called, skipped, gaps,
  derived_starts>>
archive_vars == <<pack_class, incremental, cnpp, existing_record, appended, pcfr,
  hdr, stored, taken, archive_starts>>
opaque_vars == <<opaque_ring, cfg_timer, rest, opaque_last_sample, sent, added>>
continuity_vars == <<continuity_phase, channels, contingood, first_data, conthead,
  contfree, allocsize, q330cont_updated, continuity_file, latest, reboots,
  continuity_starts>>
threadcontinuity_vars == <<threadcontinuity_phase, dplcqs, msg_lcq, ds_lcq,
  log_seedname, threadcontinuity_file, threadcontinuity_starts, given, kept>>
ctrldet_vars == <<tree, pdetop, ctrldet_on, ison, ctrldet_gen_on>>
threshold_vars == <<threshold_tcs, threshold_sam_no, threshold_remaining,
  threshold_have_detection, threshold_result, threshold_onset,
  threshold_detector_on, threshold_detector_enabled, threshold_pc, threshold_overs,
  threshold_quiet, threshold_seen, threshold_onsets>>
limits_vars == <<limits_tcs, limits_sam_no, limits_remaining, limits_have_detection,
  limits_result, limits_onset, limits_detector_on, limits_detector_enabled,
  limits_pc, limits_overs, limits_quiet, limits_seen, limits_onsets>>
murdock_vars == <<murdock_con, murdock_onset, murdock_hits, murdock_reported>>
hits_vars == <<hits_con, hits_onset, hits_hits, hits_reported>>
peaks_vars == <<peaks_con, peaks_sam_no, values, peaks_seen>>
detectbuffer_vars == <<arrived, insamps, sampcnt, detectbuffer_sam_no,
  detectbuffer_remaining, itc, new_onset, detectbuffer_have_detection,
  detectbuffer_result, detectbuffer_detector_on, first_detection,
  detection_declared, detectbuffer_pc, last, detectbuffer_quiet>>
opstats_vars == <<up, accum, minutes, hours, stat_minutes, stat_hours,
  total_minutes, stats_file, down, recent, ran, stats_starts>>

RecordsInit ==
  /\ part \in Parts
  /\ Init
  /\ Peeks!Init
  /\ FourHz!Init
  /\ (IF part = "fast" THEN Faster!Init ELSE Slower!Init)
  /\ part # "slow" /\ part # "fast" => derived_data_timetag = 1
  /\ Archives!Init
  /\ part # "archive" => pack_class = "data" /\ ~incremental
  /\ Configuration!Init
  /\ Continuing!Init
  /\ (IF part = "media" THEN Media!Init ELSE Threads!Init)
  /\ ControlDetector!Init
  /\ part # "control" => tree = <<"DET">> /\ ctrldet_on = [i \in {"DET", "CAL"} |-> FALSE]
  /\ Levels!Init
  /\ Limits!Init
  /\ Onsets!Init
  /\ Hits!Init
  /\ Turning!Init
  /\ Buffer!Init
  /\ Statistics!Init

(* The parts that do not run stay as they are. *)
Still ==
  /\ part # "compress" => UNCHANGED vars
  /\ part # "peek" => UNCHANGED peek_vars
  /\ part \notin {"record", "onehz"} => UNCHANGED record_vars
  /\ part \notin {"slow", "fast"} => UNCHANGED derived_vars
  /\ part # "archive" => UNCHANGED archive_vars
  /\ part \notin {"config", "serial"} => UNCHANGED opaque_vars
  /\ part \notin {"continuity", "crash"} => UNCHANGED continuity_vars
  /\ part \notin {"thread", "media"} => UNCHANGED threadcontinuity_vars
  /\ part # "control" => UNCHANGED ctrldet_vars
  /\ part # "threshold" => UNCHANGED threshold_vars
  /\ part # "limits" => UNCHANGED limits_vars
  /\ part # "murdock" => UNCHANGED murdock_vars
  /\ part # "hits" => UNCHANGED hits_vars
  /\ part # "peaks" => UNCHANGED peaks_vars
  /\ part # "buffer" => UNCHANGED detectbuffer_vars
  /\ part # "statistics" => UNCHANGED opstats_vars

RecordsNext ==
  \/ part = "compress" /\ Next /\ UNCHANGED part /\ Still
  \/ part = "peek" /\ Peeks!Next /\ UNCHANGED part /\ Still
  \/ part = "record" /\ FourHz!Next /\ UNCHANGED part /\ Still
  \/ part = "onehz" /\ OneHz!Next /\ UNCHANGED part /\ Still
  \/ part = "slow" /\ Slower!Next /\ UNCHANGED part /\ Still
  \/ part = "fast" /\ Faster!Next /\ UNCHANGED part /\ Still
  \/ part = "archive" /\ Archives!Next /\ UNCHANGED part /\ Still
  \/ part = "config" /\ Configuration!Next /\ UNCHANGED part /\ Still
  \/ part = "serial" /\ SerialData!Next /\ UNCHANGED part /\ Still
  \/ part = "continuity" /\ Continuing!Next /\ UNCHANGED part /\ Still
  \/ part = "crash" /\ Crashing!Next /\ UNCHANGED part /\ Still
  \/ part = "thread" /\ Threads!Next /\ UNCHANGED part /\ Still
  \/ part = "media" /\ Media!Next /\ UNCHANGED part /\ Still
  \/ part = "control" /\ ControlDetector!Next /\ UNCHANGED part /\ Still
  \/ part = "threshold" /\ Levels!Next /\ UNCHANGED part /\ Still
  \/ part = "limits" /\ Limits!Next /\ UNCHANGED part /\ Still
  \/ part = "murdock" /\ Onsets!Next /\ UNCHANGED part /\ Still
  \/ part = "hits" /\ Hits!Next /\ UNCHANGED part /\ Still
  \/ part = "peaks" /\ Turning!Next /\ UNCHANGED part /\ Still
  \/ part = "buffer" /\ Buffer!Next /\ UNCHANGED part /\ Still
  \/ part = "statistics" /\ Statistics!Next /\ UNCHANGED part /\ Still

records_vars == <<part, vars, peek_vars, record_vars, derived_vars,
          archive_vars, opaque_vars, continuity_vars, threadcontinuity_vars,
          ctrldet_vars, threshold_vars, limits_vars, murdock_vars, hits_vars,
          peaks_vars, detectbuffer_vars, opstats_vars>>

RecordsSpec == RecordsInit /\ [][RecordsNext]_records_vars

(* The words of a record unpack to the samples that were given, in the        *)
(* densest format they fit (compress_block), and a record has the time of its *)
(* first sample and no gap within (libcompress.c, libsample.c).               *)
RecordsAreExact ==
  /\ part = "compress" => /\ CompressTypeOK /\ RingHoldsTheWaiting
                          /\ WordsAreLossless /\ DensestFormat
  /\ part = "peek" => /\ Peeks!RingHoldsTheWaiting /\ Peeks!WordsAreLossless
                     /\ Peeks!DensestFormat
  /\ part = "record" => /\ FourHz!RecordTypeOK /\ FourHz!RecordsAreDated
                        /\ FourHz!RecordsAreContiguous
  /\ part = "onehz" => /\ OneHz!RecordTypeOK /\ OneHz!RecordsAreDated
                       /\ OneHz!RecordsAreContiguous

(* A derived channel's record is continuous, dated by its samples, aligned,   *)
(* and marks every gap it has (process_lcq, flush_lcq).                       *)
DerivedAreExact ==
  /\ part = "slow" => /\ Slower!RecordIsContinuous /\ Slower!TimeIsOfSample
                      /\ Slower!SamplesAreAligned /\ Slower!GapIsGap /\ Slower!CopiedAreValid
  /\ part = "fast" => Faster!RecordIsContinuous /\ Faster!TimeIsOfSample

(* An archival record holds what was given, once, in order, chained and dated *)
(* from its best sample (libarchive.c); opaque blockettes likewise            *)
(* (libopaque.c).                                                             *)
ArchiveIsExact ==
  /\ part = "archive" =>
       /\ Archives!ArchiveTypeOK /\ Archives!LinksReachAll /\ Archives!KeptOnceInOrder
       /\ Archives!ClientIsCurrent /\ Archives!DatedFromBest /\ Archives!WithinHour
       /\ Archives!FirstDataIsData
  /\ part = "config" => /\ Configuration!RecordsAreChained /\ Configuration!AllIsThere
                        /\ Configuration!StreamsAreNumbered
  /\ part = "serial" => /\ SerialData!RecordsAreChained /\ SerialData!AllIsThere
                        /\ SerialData!StreamsAreNumbered

(* What a restart restores is what the last session left; after a crash it is *)
(* of one instant and of this Q330 (libcont.c). The channels of the station   *)
(* thread itself have one log, and their record numbers go on.                *)
ContinuityIsExact ==
  /\ part = "continuity" => Continuing!ContinuityTypeOK /\ Continuing!RestoredIsLatest
  /\ part = "crash" => /\ Crashing!ContinuityTypeOK /\ Crashing!RestoredIsCoherent
                       /\ Crashing!RestoredIsOfThisQ330
  /\ part = "thread" => /\ Threads!OneLog /\ Threads!RemovedIsSilent /\ Threads!NumbersGoOn
                        /\ Threads!ChannelsAreReady
  /\ part = "media" => Media!OneLog /\ Media!RemovedIsSilent /\ Media!NumbersGoOn

(* A threshold detector sees each sample once and reports the first onset;    *)
(* the values of a Murdock-Hutt detector are the swings of the samples, and   *)
(* those an onset keeps are neighbours; thresholds follow the noise; buffered samples are not lost,   *)
(* and a detection is declared only after quiet (libdetect.c).                *)
DetectorsAreExact ==
  /\ part = "control" => ControlDetector!CtrlDetTypeOK
  /\ part = "threshold" => Levels!EverySampleOnce
  /\ part = "limits" => Limits!EverySampleOnce
  /\ part = "murdock" => Onsets!ValuesAreNeighbours
  /\ part = "peaks" => /\ Turning!SwingsAreExact /\ Turning!TurnsAreDated
                       /\ Turning!ThresholdsFollow /\ Turning!RatioIsRounded
  /\ part = "buffer" => Buffer!NoneIsLost /\ Buffer!DeclaredAfterQuiet

(* The statistics of the last hour are those of its minutes, also across a    *)
(* restart, and an efficiency counts only the minutes that ran (libstats.c).  *)
StatisticsAreExact ==
  part = "statistics" => /\ Statistics!OpStatsTypeOK /\ Statistics!HourIsRecent
                         /\ Statistics!HourIsKept /\ Statistics!HourEffIsMeasured

(* A sample that is taken is in a record, in the one being built or still     *)
(* waiting; a restart restores the counts of the last session.                *)
NothingIsDropped ==
  FourHz!SamplesAreKept /\ Threads!RestoredIsLatest

(* A control detector is on exactly when its expression is; a level detection *)
(* ends only after enough quiet samples, a Murdock-Hutt one needs its hits    *)
(* and is reported once, and buffered samples are taken in order.             *)
DetectionsAreExact ==
  /\ ControlDetector!EvaluatesExpression /\ Levels!WaitsForBlock
  /\ Onsets!EventHasHits /\ Hits!EventHasHits /\ Onsets!ReportedOnce /\ Buffer!SamplesInOrder
==============================================================================
