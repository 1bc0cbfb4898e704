-------------------------- MODULE OutputDevicePool --------------------------
(***************************************************************************)
(* output_device_pool: which output device serves a write request.  A name *)
(* is a sequence of characters, a character a value of any kind; a device  *)
(* is its place in the list given to the constructor.                      *)
(***************************************************************************)
EXTENDS Naturals, Sequences

(* is_prefix() of ch_frb_io_internals.hpp. *)
Prefixes(s1, s2) ==
  /\ Len(s1) <= Len(s2)
  /\ \A i \in 1 .. Len(s1) : s1[i] = s2[i]

(* The constructor throws unless no name is a prefix of another. *)
PoolAccepts(names) ==
  \A i, j \in DOMAIN names : i # j => ~Prefixes(names[i], names[j])

Matching(names, file) == {i \in DOMAIN names : Prefixes(names[i], file)}

(* enqueue_write_request(): the first device whose name matches, or 0: the *)
(* request is dropped.                                                     *)
NoDevice == 0
DeviceOrLast(names, file) ==   \* mutant: what matches no name goes to the last device
  IF Matching(names, file) = {} THEN Len(names)
  ELSE CHOOSE i \in Matching(names, file) : \A j \in Matching(names, file) : i <= j
DeviceOf(names, file) ==
  IF Matching(names, file) = {} THEN NoDevice
  ELSE CHOOSE i \in Matching(names, file) : \A j \in Matching(names, file) : i <= j

(* It throws when it cannot be served by any pool of this kind: a mask is  *)
(* asked for that nobody will fill, or there is no device at all.  An      *)
(* empty file name is refused before the devices are counted.              *)
EnqueueThrows(names, file, need_rfi_mask, nrfifreq) ==
  \/ need_rfi_mask /\ nrfifreq = 0
  \/ file # <<>> /\ Len(names) = 0
=============================================================================
