------------------------ MODULE VectorLocationProofs ------------------------
(***************************************************************************)
(* Proofs about VectorLocation, for any cells, any devices of each sort and *)
(* any choice of which of them share the host's storage.                    *)
(*                                                                         *)
(* Inv is inductive as the conjunction of the type invariant with what the  *)
(* location promises (Authoritative, BufferHeld): each operator on vectors  *)
(* is shown to take sound vectors to sound vectors, and every action is one *)
(* such operator.  The theorems assume the rules of a disciplined program:  *)
(* without them a write to a stale host copy is lost, as a run shows.       *)
(***************************************************************************)
EXTENDS VectorLocation, TLAPS

(* TypeOK, Authoritative and BufferHeld as predicates on a vector. *)
Typed(v) == v \in Vector /\ \A d \in Devices \ v.allocated : v.buffer[d] = {}

Trusted(v) ==
    /\ v.location.in # "GPU"
    /\ v.location.in \in {"CPU", "Stale_GPU", "Both"} => v.host = Cells
    /\ v.location.in = "Both" /\ v.location.dev \notin Native =>
            CopyOf(v, v.location.dev) = Cells
    /\ v.location.in \in DeviceAhead =>
            v.location.dev \in Jit /\ CopyOf(v, v.location.dev) = Cells

Held(v) == v.location.in \in OnDevice => v.location.dev \in v.allocated

Sound(v) == Typed(v) /\ Trusted(v) /\ Held(v)

Inv == Sound(vec) /\ autoSync \in BOOLEAN /\ autoMode \in BOOLEAN

LEMMA InvMeaning == Inv <=> TypeOK /\ Authoritative /\ BufferHeld
<1>1. Authoritative <=> Trusted(vec)
  BY DEF Authoritative, Trusted, DeviceAhead
<1> QED
  BY <1>1 DEF Inv, Sound, Typed, Held, TypeOK, BufferHeld

-----------------------------------------------------------------------------
(* The operators on vectors, field by field *)

LEMMA CopyFields ==
    ASSUME NEW v \in Vector, NEW d \in Devices
    PROVE  LET u == CopyDeviceToHost(v, d)
           IN  /\ u \in Vector
               /\ u.location = In("Both", d) /\ u.host = CopyOf(v, d)
               /\ u.buffer = v.buffer /\ u.allocated = v.allocated
<1>1. CopyOf(v, d) \in SUBSET Cells
  BY DEF CopyOf, Vector
<1>2. In("Both", d) \in Location
  BY DEF In, Location, OnDevice
<1>3. ASSUME NEW l \in Location, NEW h \in SUBSET Cells
      PROVE  LET u == [v EXCEPT !.host = h, !.location = l]
             IN  /\ u \in Vector /\ u.location = l /\ u.host = h
                 /\ u.buffer = v.buffer /\ u.allocated = v.allocated
  BY DEF Vector
<1> QED
  BY <1>1, <1>2, <1>3 DEF CopyDeviceToHost

LEMMA UploadFields ==
    ASSUME NEW v \in Vector, NEW d \in Devices
    PROVE  LET u == HostToDevice(EnsureBuffer(v, d), d)
           IN  /\ u \in Vector
               /\ u.location = In("Both", d) /\ u.host = v.host
               /\ \A e \in Devices \ {d} : u.buffer[e] = v.buffer[e]
               /\ d \notin ZeroCopy => u.buffer[d] = v.host
               /\ u.allocated = v.allocated \union {d}
<1> DEFINE w == EnsureBuffer(v, d)
           l == In("Both", d)
           c == IF d \in ZeroCopy THEN w.buffer[d] ELSE w.host
           u == HostToDevice(w, d)
<1>1. l \in Location
  BY DEF In, Location, OnDevice
<1>2. /\ w \in Vector /\ w.location = v.location /\ w.host = v.host
      /\ w.buffer = v.buffer /\ w.allocated = v.allocated \union {d}
  BY DEF EnsureBuffer, Vector
<1>3. c \in SUBSET Cells /\ (d \notin ZeroCopy => c = v.host)
  BY <1>2 DEF Vector
<1>4. u = [w EXCEPT !.buffer[d] = c, !.location = l]
  BY DEF HostToDevice
<1> HIDE DEF w, l, c, u
<1>5. /\ u \in Vector
      /\ u.location = l /\ u.host = w.host
      /\ u.buffer = [w.buffer EXCEPT ![d] = c]
      /\ u.allocated = w.allocated
  BY <1>1, <1>2, <1>3, <1>4 DEF Vector
<1>6. w.buffer \in [Devices -> SUBSET Cells]
  BY <1>2 DEF Vector
<1>7. u.buffer[d] = c /\ \A e \in Devices \ {d} : u.buffer[e] = w.buffer[e]
  BY <1>5, <1>6
<1> QED
  BY <1>2, <1>3, <1>5, <1>7 DEF w, l, u

LEMMA HostWriteFields ==
    ASSUME NEW v \in Vector, NEW W \in SUBSET Cells
    PROVE  LET u == HostWritten(v, W)
           IN  /\ u \in Vector
               /\ u.location = v.location /\ u.host = v.host \union W
               /\ \A e \in Devices : u.buffer[e] = v.buffer[e] \ W
               /\ u.allocated = v.allocated
<1> DEFINE h == v.host \union W
           b == [e \in Devices |-> v.buffer[e] \ W]
           u == HostWritten(v, W)
<1>1. h \in SUBSET Cells
  BY DEF Vector
<1>2. b \in [Devices -> SUBSET Cells] /\ \A e \in Devices : b[e] = v.buffer[e] \ W
  BY DEF Vector
<1>3. u = [v EXCEPT !.host = h, !.buffer = b]
  BY DEF HostWritten
<1> HIDE DEF h, b, u
<1>4. /\ u \in Vector
      /\ u.location = v.location /\ u.host = h
      /\ u.buffer = b /\ u.allocated = v.allocated
  BY <1>1, <1>2, <1>3 DEF Vector
<1> QED
  BY <1>2, <1>4 DEF h, u

LEMMA DeviceWriteFields ==
    ASSUME NEW v \in Vector, NEW W \in SUBSET Cells,
           NEW d \in Devices \ ZeroCopy
    PROVE  LET u == DeviceWritten(v, d, W)
           IN  /\ u \in Vector
               /\ u.location = v.location /\ u.host = v.host \ W
               /\ \A e \in Devices \ {d} : u.buffer[e] = v.buffer[e] \ W
               /\ u.buffer[d] = v.buffer[d] \union W
               /\ u.allocated = v.allocated
<1> DEFINE h == v.host \ W
           b == [e \in Devices |-> IF e = d THEN v.buffer[e] \union W
                                            ELSE v.buffer[e] \ W]
           u == DeviceWritten(v, d, W)
<1>1. h \in SUBSET Cells
  BY DEF Vector
<1>2. /\ b \in [Devices -> SUBSET Cells]
      /\ \A e \in Devices \ {d} : b[e] = v.buffer[e] \ W
      /\ b[d] = v.buffer[d] \union W
  BY DEF Vector
<1>3. u = [v EXCEPT !.host = h, !.buffer = b]
  BY DEF DeviceWritten
<1> HIDE DEF h, b, u
<1>4. /\ u \in Vector
      /\ u.location = v.location /\ u.host = h
      /\ u.buffer = b /\ u.allocated = v.allocated
  BY <1>1, <1>2, <1>3 DEF Vector
<1> QED
  BY <1>2, <1>4 DEF h, u

LEMMA RelocatedFields ==
    ASSUME NEW v \in Vector, NEW l \in Location
    PROVE  LET u == [v EXCEPT !.location = l]
           IN  /\ u \in Vector
               /\ u.location = l /\ u.host = v.host
               /\ u.buffer = v.buffer /\ u.allocated = v.allocated
BY DEF Vector

-----------------------------------------------------------------------------
(* The operators keep a vector sound *)

LEMMA Places ==
    ASSUME NEW v \in Vector
    PROVE  /\ v.location.in \in {"CPU", "GPU", "Stale_CPU", "Both", "Stale_GPU"}
           /\ v.location.in # "CPU" => v.location.dev \in Devices
           /\ v.location.in = "CPU" => v.location.dev = NoDevice
           /\ v.allocated \subseteq Devices
           /\ v.host \subseteq Cells
           /\ \A d \in Devices : v.buffer[d] \subseteq Cells
BY DEF Vector, Location, OnCpu, OnDevice, DeviceAhead

LEMMA CopySound ==
    ASSUME NEW v, Sound(v), v.location.in \in OnDevice,
           v.location.in = "Both" => v.location.dev \notin Native \ ZeroCopy
    PROVE  LET u == CopyDeviceToHost(v, v.location.dev)
           IN  Sound(u) /\ u.location = In("Both", v.location.dev)
               /\ u.allocated = v.allocated
<1> DEFINE d == v.location.dev
           u == CopyDeviceToHost(v, d)
<1>1. v \in Vector /\ d \in Devices /\ d \in v.allocated
  BY Places DEF Sound, Typed, Held, OnDevice, DeviceAhead
<1>2. CopyOf(v, d) = Cells
  BY <1>1, VectorAssumption DEF Sound, Trusted, CopyOf, OnDevice, DeviceAhead, Devices
<1>3. /\ u \in Vector
      /\ u.location = In("Both", d) /\ u.host = Cells
      /\ u.buffer = v.buffer /\ u.allocated = v.allocated
  BY <1>1, <1>2, CopyFields
<1>4. CopyOf(u, d) = Cells
  BY <1>2, <1>3 DEF CopyOf
<1> HIDE DEF u
<1>5. Sound(u)
  BY <1>1, <1>3, <1>4 DEF Sound, Typed, Trusted, Held, In, DeviceAhead
<1> QED
  BY <1>3, <1>5 DEF u

LEMMA UploadSound ==
    ASSUME NEW v, Sound(v), NEW d \in Devices, v.location.in \notin DeviceAhead
    PROVE  LET u == HostToDevice(EnsureBuffer(v, d), d)
           IN  Sound(u) /\ u.location = In("Both", d)
<1> DEFINE u == HostToDevice(EnsureBuffer(v, d), d)
<1>1. v \in Vector
  BY DEF Sound, Typed
<1>2. v.host = Cells
  BY <1>1, Places DEF Sound, Trusted, DeviceAhead
<1>3. /\ u \in Vector
      /\ u.location = In("Both", d) /\ u.host = Cells
      /\ \A e \in Devices \ {d} : u.buffer[e] = v.buffer[e]
      /\ d \notin ZeroCopy => u.buffer[d] = Cells
      /\ u.allocated = v.allocated \union {d}
  BY <1>1, <1>2, UploadFields
<1> HIDE DEF u
<1>4. CopyOf(u, d) = Cells
  BY <1>3 DEF CopyOf
<1>5. Sound(u)
  BY <1>3, <1>4 DEF Sound, Typed, Trusted, Held, In, DeviceAhead
<1> QED
  BY <1>3, <1>5 DEF u

LEMMA ToDeviceSound ==
    ASSUME NEW v, Sound(v), NEW d \in Devices
    PROVE  LET u == ToDevice(v, d)
           IN  /\ Sound(u) /\ u.location.dev = d /\ u.location.in \in OnDevice
<1> DEFINE w == BroughtHome(v, d)
<1>1. Sound(w) /\ (w.location.in \in DeviceAhead => w.location.dev = d)
  <2>1. CASE v.location.in \in DeviceAhead /\ v.location.dev # d
    <3>1. w = CopyDeviceToHost(v, v.location.dev)
      BY <2>1 DEF BroughtHome
    <3>2. v.location.in \in OnDevice /\ v.location.in # "Both"
      BY <2>1 DEF OnDevice, DeviceAhead
    <3>3. Sound(w) /\ w.location = In("Both", v.location.dev)
      BY <3>1, <3>2, CopySound
    <3> QED
      BY <3>3 DEF In, DeviceAhead
  <2>2. CASE ~ (v.location.in \in DeviceAhead /\ v.location.dev # d)
    BY <2>2 DEF BroughtHome
  <2> QED
    BY <2>1, <2>2
<1>2. CASE w.location.in \in OnDevice /\ w.location.dev = d
  BY <1>1, <1>2 DEF ToDevice
<1>3. CASE ~ (w.location.in \in OnDevice /\ w.location.dev = d)
  <2>1. w.location.in \notin DeviceAhead
    BY <1>1, <1>3 DEF OnDevice
  <2>2. ToDevice(v, d) = HostToDevice(EnsureBuffer(w, d), d)
    BY <1>3 DEF ToDevice
  <2> HIDE DEF w
  <2>3. /\ Sound(HostToDevice(EnsureBuffer(w, d), d))
        /\ HostToDevice(EnsureBuffer(w, d), d).location = In("Both", d)
    BY <1>1, <2>1, UploadSound
  <2> QED
    BY <2>2, <2>3 DEF In, OnDevice
<1> QED
  BY <1>2, <1>3

LEMMA ToCpuSound ==
    ASSUME NEW v, Sound(v), NEW force \in BOOLEAN,
           force => ~ (v.location.in = "Both" /\ v.location.dev \in Native \ ZeroCopy)
    PROVE  Sound(ToCpu(v, force))
BY CopySound DEF ToCpu, OnDevice, DeviceAhead

LEMMA SyncSound ==
    ASSUME NEW v, Sound(v)
    PROVE  Sound(Sync(v)) /\ Sound(EnsureCpuSync(v))
<1>1. Sound(ToCpu(v, FALSE))
  BY ToCpuSound
<1>2. v.location.in = "Stale_GPU" => Sound(ToDevice(v, v.location.dev))
  BY ToDeviceSound, Places DEF Sound, Typed
<1> QED
  BY <1>1, <1>2 DEF Sync, EnsureCpuSync

LEMMA FreeSound ==
    ASSUME NEW v, Sound(v), NEW d \in Devices
    PROVE  Sound(FreeBuffer(v, d))
<1> DEFINE w == IF v.location.in \in DeviceAhead /\ v.location.dev = d
                THEN CopyDeviceToHost(v, d) ELSE v
           l == LocationAfterFree(w.location, d)
           a == w.allocated \ {d}
           u == [w EXCEPT !.buffer[d] = {}, !.location = l, !.allocated = a]
<1>1. Sound(w) /\ (w.location.in \in DeviceAhead => w.location.dev # d)
  <2>1. CASE v.location.in \in DeviceAhead /\ v.location.dev = d
    <3>1. v.location.in \in OnDevice /\ v.location.in # "Both"
      BY <2>1 DEF OnDevice, DeviceAhead
    <3>2. Sound(w) /\ w.location = In("Both", d)
      BY <2>1, <3>1, CopySound
    <3> QED
      BY <3>2 DEF In, DeviceAhead
  <2>2. CASE ~ (v.location.in \in DeviceAhead /\ v.location.dev = d)
    BY <2>2
  <2> QED
    BY <2>1, <2>2
<1> HIDE DEF w
<1>2. w \in Vector
  BY <1>1 DEF Sound, Typed
<1>3. l \in Location
  BY <1>2 DEF LocationAfterFree, Vector, Location
<1>4. l = OnCpu \/ (l = w.location /\ w.location.dev # d)
  BY DEF LocationAfterFree
<1>5. w.location.dev = d => w.host = Cells
  BY <1>1, <1>2, Places DEF Sound, Trusted, DeviceAhead
<1>6. l = OnCpu => w.host = Cells
  BY <1>1, <1>2, <1>4, <1>5, Places DEF LocationAfterFree, OnCpu, Sound, Trusted
<1> HIDE DEF l
<1>7. /\ u \in Vector
      /\ u.location = l /\ u.host = w.host
      /\ \A e \in Devices \ {d} : u.buffer[e] = w.buffer[e]
      /\ u.buffer[d] = {}
      /\ u.allocated = w.allocated \ {d}
  <2>1. a \in SUBSET Devices
    BY <1>2 DEF Vector
  <2> HIDE DEF a
  <2>2. /\ u \in Vector
        /\ u.location = l /\ u.host = w.host
        /\ u.buffer = [w.buffer EXCEPT ![d] = {}]
        /\ u.allocated = a
    BY <1>2, <1>3, <2>1 DEF Vector
  <2>3. w.buffer \in [Devices -> SUBSET Cells]
    BY <1>2 DEF Vector
  <2> QED
    BY <2>2, <2>3 DEF a
<1> HIDE DEF u
<1>8. Typed(u)
  BY <1>1, <1>7 DEF Sound, Typed
<1>9. Held(u)
  BY <1>1, <1>4, <1>7 DEF Sound, Held, OnCpu, OnDevice, DeviceAhead
<1>10. Trusted(u)
  <2>1. CASE l = OnCpu
    BY <2>1, <1>6, <1>7 DEF Trusted, OnCpu, DeviceAhead
  <2>2. CASE l = w.location /\ w.location.dev # d
    <3>1. w.location.dev \in Devices => CopyOf(u, w.location.dev) = CopyOf(w, w.location.dev)
      BY <2>2, <1>7 DEF CopyOf
    <3>2. w.location.in \in {"Both"} \union DeviceAhead => w.location.dev \in Devices
      BY <1>2, Places DEF DeviceAhead
    <3> QED
      BY <2>2, <1>1, <1>7, <3>1, <3>2 DEF Sound, Trusted
  <2> QED
    BY <1>4, <2>1, <2>2
<1>11. d \in v.allocated => FreeBuffer(v, d) = u
  BY <1>2 DEF FreeBuffer, u, l, w, Vector
<1> QED
  BY <1>8, <1>9, <1>10, <1>11 DEF Sound, FreeBuffer

LEMMA FreeAllSound ==
    ASSUME NEW v, Sound(v)
    PROVE  Sound(FreeAllBuffers(v))
<1> DEFINE h == IF v.location.in \in DeviceAhead
                THEN CopyOf(v, v.location.dev) ELSE v.host
           b == [d \in Devices |-> {}]
           u == FreeAllBuffers(v)
<1>1. h = Cells
  BY Places DEF Sound, Typed, Trusted, DeviceAhead
<1>2. u = [location |-> OnCpu, host |-> h, buffer |-> b, allocated |-> {}]
  BY DEF FreeAllBuffers
<1>3. b \in [Devices -> SUBSET Cells] /\ \A d \in Devices : b[d] = {}
  OBVIOUS
<1>4. OnCpu \in Location
  BY DEF Location
<1> HIDE DEF h, b, u
<1>5. u \in Vector /\ u.location = OnCpu /\ u.host = Cells /\ u.buffer = b
  BY <1>1, <1>2, <1>3, <1>4 DEF Vector
<1> QED
  BY <1>3, <1>5 DEF u, Sound, Typed, Trusted, Held, OnCpu, OnDevice, DeviceAhead

(* A write to the host storage, followed by the marking that set and fill do. *)
LEMMA WriteSound ==
    ASSUME NEW v, Sound(v), v.location.in \notin DeviceAhead,
           NEW W \in SUBSET Cells
    PROVE  Sound(MarkGpuStale(HostWritten(v, W)))
<1> DEFINE w == HostWritten(v, W)
           l == In("Stale_GPU", w.location.dev)
           u == MarkGpuStale(w)
<1>1. v \in Vector /\ v.host = Cells
  BY Places DEF Sound, Typed, Trusted, DeviceAhead
<1>0. v.host \union W = Cells
  BY <1>1
<1>2. /\ w \in Vector
      /\ w.location = v.location /\ w.host = Cells
      /\ \A e \in Devices : w.buffer[e] = v.buffer[e] \ W
      /\ w.allocated = v.allocated
  BY <1>0, <1>1, HostWriteFields
<1> HIDE DEF w
<1>3. Typed(w)
  BY <1>2 DEF Sound, Typed
<1>4. CASE w.location.in = "Both"
  <2>1. l \in Location
    BY <1>2, <1>4, Places DEF In, Location
  <2>2. u = [w EXCEPT !.location = l]
    BY <1>4 DEF MarkGpuStale
  <2> HIDE DEF l, u
  <2>3. u \in Vector /\ u.location = l /\ u.host = w.host
        /\ u.buffer = w.buffer /\ u.allocated = w.allocated
    BY <1>2, <2>1, <2>2 DEF Vector
  <2> QED
    BY <1>2, <1>3, <2>3
    DEF l, u, w, Sound, Typed, Trusted, Held, In, OnDevice, DeviceAhead
<1>5. CASE w.location.in # "Both"
  <2>1. u = w
    BY <1>2, <1>5 DEF MarkGpuStale, DeviceAhead
  <2>2. w.location.in \notin OnDevice
    BY <1>2, <1>5 DEF OnDevice
  <2> QED
    BY <1>2, <1>3, <1>5, <2>1, <2>2 DEF w, Sound, Trusted, Held, OnDevice
<1> QED
  BY <1>4, <1>5

LEMMA LaunchSound ==
    ASSUME NEW v, Sound(v), NEW d \in Devices, NEW W \in SUBSET Cells
    PROVE  Sound(Launched(v, d, W))
<1> DEFINE u == ToDevice(v, d)
<1>1. Sound(u) /\ u.location.dev = d /\ u.location.in \in OnDevice
  BY ToDeviceSound
<1>2. u \in Vector /\ (u.location.in \in DeviceAhead => d \in Jit)
  BY <1>1 DEF Sound, Typed, Trusted
<1> HIDE DEF u
<1>3. CASE d \in Jit
  <2> DEFINE w == DeviceWritten(u, d, W)
             z == MarkVectorsStale(w, d)
  <2>1. CopyOf(u, d) = Cells
    BY <1>1, <1>3, VectorAssumption DEF Sound, Trusted, OnDevice
  <2>2. /\ w \in Vector /\ w.location = u.location
        /\ w.allocated = u.allocated /\ CopyOf(w, d) = Cells
        /\ \A e \in Devices \ {d} : w.buffer[e] = u.buffer[e] \ W
    <3>0. CopyOf(u, d) \union W = Cells
      BY <2>1
    <3>1. CASE d \in ZeroCopy
      <4>1. w = HostWritten(u, W) /\ CopyOf(u, d) = u.host /\ CopyOf(w, d) = w.host
        BY <3>1 DEF DeviceWritten, CopyOf
      <4>2. /\ HostWritten(u, W) \in Vector
            /\ HostWritten(u, W).location = u.location
            /\ HostWritten(u, W).allocated = u.allocated
            /\ HostWritten(u, W).host = u.host \union W
            /\ \A e \in Devices : HostWritten(u, W).buffer[e] = u.buffer[e] \ W
        BY <1>2, HostWriteFields
      <4> HIDE DEF w
      <4> QED
        BY <3>0, <4>1, <4>2
    <3>2. CASE d \notin ZeroCopy
      <4>1. CopyOf(u, d) = u.buffer[d] /\ CopyOf(w, d) = w.buffer[d]
        BY <3>2 DEF CopyOf
      <4>a. d \in Devices \ ZeroCopy
        BY <3>2
      <4>b. u \in Vector
        BY <1>2
      <4>2. /\ w \in Vector
            /\ w.location = u.location /\ w.host = u.host \ W
            /\ \A e \in Devices \ {d} : w.buffer[e] = u.buffer[e] \ W
            /\ w.buffer[d] = u.buffer[d] \union W
            /\ w.allocated = u.allocated
        BY <4>a, <4>b, DeviceWriteFields, Zenon
      <4> HIDE DEF w
      <4> QED
        BY <3>0, <4>1, <4>2
    <3> QED
      BY <3>1, <3>2
  <2>3. d \in u.allocated
    BY <1>1 DEF Sound, Held
  <2> HIDE DEF w
  <2>4. Typed(w)
    BY <1>1, <2>2, <2>3 DEF Sound, Typed
  <2>5. \/ /\ z \in Vector /\ z.location = In("Stale_CPU", d)
           /\ z.host = w.host /\ z.buffer = w.buffer
           /\ z.allocated = w.allocated
        \/ z = w /\ w.location.in \in DeviceAhead
    <3>1. In("Stale_CPU", d) \in Location
      BY DEF In, Location, OnDevice, DeviceAhead
    <3>2. CASE w.location.in = "Both"
      <4>1. z = [w EXCEPT !.location = In("Stale_CPU", d)]
        BY <3>2 DEF MarkVectorsStale
      <4> HIDE DEF z
      <4>2. /\ z \in Vector /\ z.location = In("Stale_CPU", d)
            /\ z.host = w.host /\ z.buffer = w.buffer
            /\ z.allocated = w.allocated
        BY <2>2, <3>1, <4>1 DEF Vector
      <4> QED
        BY <4>2
    <3>3. CASE w.location.in # "Both"
      BY <1>1, <2>2, <3>3 DEF MarkVectorsStale, OnDevice
    <3> QED
      BY <3>2, <3>3
  <2> HIDE DEF z
  <2>6. z.location.dev = d /\ z.location.in = "Stale_CPU"
    BY <1>1, <2>2, <2>5 DEF In, DeviceAhead, Sound, Trusted
  <2>7. CopyOf(z, d) = Cells /\ Typed(z) /\ d \in z.allocated
    BY <2>2, <2>3, <2>4, <2>5 DEF CopyOf, Typed
  <2>8. Sound(z)
    BY <1>3, <2>6, <2>7 DEF Sound, Trusted, Held, DeviceAhead
  <2> QED
    BY <1>3, <2>8, VectorAssumption DEF Launched, u, w, z
<1>4. CASE d \notin Jit
  <2>1. u.location.in = "Both" /\ u.location.in \notin DeviceAhead
    BY <1>1, <1>2, <1>4 DEF OnDevice, DeviceAhead
  <2>2. CASE d \in Native
    <3> DEFINE w == HostWritten(u, W)
    <3>1. u.host = Cells
      BY <1>1, <2>1 DEF Sound, Trusted
    <3>2. /\ w \in Vector
          /\ w.location = u.location /\ w.host = Cells
          /\ \A e \in Devices : w.buffer[e] = u.buffer[e] \ W
          /\ w.allocated = u.allocated
      <4>1. u.host \union W = Cells
        BY <3>1
      <4> QED
        BY <1>2, <4>1, HostWriteFields
    <3> HIDE DEF w
    <3>3. Typed(w) /\ Held(w) /\ Trusted(w)
      BY <1>1, <2>1, <2>2, <3>2 DEF Sound, Typed, Held, Trusted
    <3>4. Launched(v, d, W) = w
      BY <1>4, <2>2, VectorAssumption DEF Launched, u, w
    <3> QED
      BY <3>3, <3>4 DEF Sound
  <2>3. CASE d \in Interpreter
    <3>1. Sound(MarkGpuStale(HostWritten(u, W)))
      BY <1>1, <2>1, WriteSound
    <3>2. d \notin Native
      BY <2>3, VectorAssumption
    <3> QED
      BY <1>1, <1>4, <2>3, <3>1, <3>2 DEF Launched, u
  <2> QED
    BY <1>4, <2>2, <2>3 DEF Devices
<1> QED
  BY <1>3, <1>4

-----------------------------------------------------------------------------
(* The invariant *)

LEMMA InvInit == Init => Inv
<1> SUFFICES ASSUME Init PROVE Inv
  OBVIOUS
<1>1. /\ vec.location \in Location /\ vec.location.in \in {"CPU", "Stale_GPU"}
      /\ vec.host = Cells /\ vec.buffer = [d \in Devices |-> {}]
      /\ vec.allocated = {} /\ vec \in Vector
  BY DEF Init, Vector, Location, OnCpu
<1> QED
  BY <1>1 DEF Init, Inv, Sound, Typed, Trusted, Held, OnDevice, DeviceAhead

LEMMA InvStep == ASSUME Disciplined PROVE Inv /\ [Next]_vars => Inv'
<1> SUFFICES ASSUME Inv, [Next]_vars PROVE Inv'
  OBVIOUS
<1>0. Sound(vec) /\ autoSync \in BOOLEAN /\ autoMode \in BOOLEAN
  BY DEF Inv
<1>a. ASSUME NEW v, Sound(v), Becomes(v) PROVE Inv'
  BY <1>0, <1>a DEF Becomes, Inv, Sound, Typed, Trusted, Held, CopyOf
<1>b. \A W \in SUBSET Cells : Write(W) => Inv'
  <2> SUFFICES ASSUME NEW W \in SUBSET Cells, Write(W) PROVE Inv'
    OBVIOUS
  <2>1. vec.location.in \notin DeviceAhead
    BY <1>0 DEF Write, MayWrite
  <2>2. Sound(MarkGpuStale(HostWritten(vec, W)))
    BY <1>0, <2>1, WriteSound
  <2> QED
    BY <1>a, <2>2 DEF Write
<1>1. CASE Get
  BY <1>0, <1>1, <1>a, SyncSound DEF Get
<1>2. CASE Set
  BY <1>2, <1>b DEF Set
<1>3. CASE Fill
  BY <1>3, <1>b DEF Fill
<1>4. ASSUME NEW d \in Devices, Upload(d) PROVE Inv'
  BY <1>0, <1>4, <1>a, ToDeviceSound DEF Upload
<1>5. ASSUME NEW d \in Devices, Free(d) PROVE Inv'
  BY <1>0, <1>5, <1>a, FreeSound DEF Free
<1>6. ASSUME NEW force \in BOOLEAN, Download(force) PROVE Inv'
  BY <1>0, <1>6, <1>a, ToCpuSound DEF Download, MayForce
<1>7. CASE Synchronise
  BY <1>0, <1>7, <1>a, SyncSound DEF Synchronise
<1>8. CASE FreeAll
  BY <1>0, <1>8, <1>a, FreeAllSound DEF FreeAll
<1>9. ASSUME NEW d \in Devices, NEW W \in SUBSET Cells, RunVectors(d, W) PROVE Inv'
  BY <1>0, <1>9, <1>a, LaunchSound DEF RunVectors
<1>10. CASE SetAutoSync \/ SetAuto \/ UNCHANGED vars
  BY <1>0, <1>10 DEF SetAutoSync, SetAuto, vars, Inv, Sound, Typed, Trusted, Held, CopyOf
<1> QED
  BY <1>1, <1>2, <1>3, <1>4, <1>5, <1>6, <1>7, <1>8, <1>9, <1>10 DEF Next

-----------------------------------------------------------------------------
(* The theorems *)

(* Under those rules the invariant always holds.                           *)
THEOREM Invariance == ASSUME Disciplined PROVE Spec => []Inv
BY InvInit, InvStep, PTL DEF Spec

(* The vector is always well formed (Vector.ml, Transfer.ml). *)
THEOREM TypeCorrect == ASSUME Disciplined PROVE Spec => []TypeOK
BY Invariance, InvMeaning, PTL

(* The copy that the location names is up to date in every cell, after any *)
(* sequence of launches, transfers, writes and frees (Transfer.ml).        *)
THEOREM LocationIsHonest == ASSUME Disciplined PROVE Spec => []Authoritative
BY Invariance, InvMeaning, PTL

(* The device that the location names always holds a buffer, so that no    *)
(* transfer fails for want of one (Transfer.copy_device_to_host).          *)
THEOREM NoTransferFails == ASSUME Disciplined PROVE Spec => []BufferHeld
BY Invariance, InvMeaning, PTL

(* An element read with auto-sync on returns what was last written, by the *)
(* program or by a kernel (Vector.get, Vector_transfer.ensure_cpu_sync).   *)
THEOREM ReadsAreCurrent == ASSUME Disciplined PROVE Spec => []ReadsCurrent
<1>1. Inv => ReadsCurrent
  <2> SUFFICES ASSUME Inv, autoSync, autoMode
               PROVE  EnsureCpuSync(vec).host = Cells
    BY DEF ReadsCurrent
  <2>1. Sound(vec) /\ Sound(EnsureCpuSync(vec)) /\ vec \in Vector
    BY SyncSound DEF Inv, Sound, Typed
  <2>2. CASE vec.location.in \notin DeviceAhead
    <3>1. EnsureCpuSync(vec) = vec
      BY <2>2 DEF EnsureCpuSync, DeviceAhead
    <3> QED
      BY <2>1, <2>2, <3>1, Places DEF Sound, Trusted, DeviceAhead
  <2>3. CASE vec.location.in = "Stale_CPU"
    <3>1. EnsureCpuSync(vec) = CopyDeviceToHost(vec, vec.location.dev)
      BY <2>3 DEF EnsureCpuSync, ToCpu, DeviceAhead
    <3>2. vec.location.in \in OnDevice /\ vec.location.in # "Both"
      BY <2>3 DEF OnDevice, DeviceAhead
    <3>3. EnsureCpuSync(vec).location = In("Both", vec.location.dev)
      BY <2>1, <3>1, <3>2, CopySound
    <3> QED
      BY <2>1, <3>3 DEF Sound, Trusted, In
  <2> QED
    BY <2>1, <2>2, <2>3 DEF DeviceAhead, Sound, Trusted
<1> QED
  BY <1>1, Invariance, PTL

(* A kernel launched on any device works on what was last written, by the  *)
(* program or by a kernel of another device (Transfer.to_device).          *)
THEOREM InputsAreCurrent == ASSUME Disciplined PROVE Spec => []InputsCurrent
<1>1. Inv => InputsCurrent
  <2> SUFFICES ASSUME Inv, NEW d \in Devices
               PROVE  IF d \in Jit THEN CopyOf(ToDevice(vec, d), d) = Cells
                                   ELSE ToDevice(vec, d).host = Cells
    BY DEF InputsCurrent
  <2> DEFINE u == ToDevice(vec, d)
  <2>1. Sound(u) /\ u.location.dev = d /\ u.location.in \in OnDevice
    BY ToDeviceSound DEF Inv
  <2> HIDE DEF u
  <2>2. CASE d \in Jit
    BY <2>1, <2>2, VectorAssumption DEF u, Sound, Trusted, OnDevice
  <2>3. CASE d \notin Jit
    BY <2>1, <2>3 DEF u, Sound, Trusted, OnDevice, DeviceAhead
  <2> QED
    BY <2>2, <2>3 DEF u
<1> QED
  BY <1>1, Invariance, PTL

=============================================================================
