-------------------------- MODULE MCRawAudioArchive --------------------------
EXTENDS RawAudioArchive

\* 44.1 kHz loopback and a 48 kHz microphone; 441 frames of the first and 480 of
\* the second are 10 ms, 448 are a period of many drivers.
MCRate == [system |-> 44100, microphone |-> 48000]

=============================================================================
