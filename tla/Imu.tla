-------------------------------- MODULE Imu ---------------------------------
(***************************************************************************)
(* The IMU driver over the I2C library over the heap: chewie_main()        *)
(* brings the driver up and reads the sensor again and again, while other  *)
(* threads use the heap.  The descriptor that the library works with lives *)
(* in a block of the heap, at an offset that is part of the model.  The    *)
(* transfer itself is module I2cTransfer, the descriptor module I2cDev;    *)
(* the conversion of the readings to floating point is left out.           *)
(***************************************************************************)
EXTENDS MmHeap

CONSTANTS
  Fds,             \* descriptors that open() may return
  VectorEntry      \* the word at address 8, which a null instance reads:
                   \* a code address, never a descriptor

VARIABLES
  inst,      \* _g_imu_jy901b_info._lib_i2c_s, as the address of its chunk
  word,      \* the bytes of the block at the offset of fd, if it has them
  files,     \* the application's open descriptors
  at         \* where chewie_main() stands

imuvars == <<inst, word, files, at>>

OFFSET_FD == 8                   \* offset of fd in struct lib_i2c_s
SizeofInstance == 4              \* sizeof(_lib_i2c_s): the size of a pointer

(* Where the field fd of an instance lies in memory. *)
FdAddress(a) == a + SIZEOF_MM_ALLOCNODE + OFFSET_FD

InBlock(a) == FdAddress(a) < NextOf(heap, a)

(* What lib_i2c_read_mult_block() and lib_i2c_deinit() read as fd. *)
Fd ==
  IF inst = NULL THEN VectorEntry
  ELSE IF InBlock(inst) THEN word ELSE heap.mem[FdAddress(inst)].size

(* drv_imu_init(): lib_i2c_open() allocates the instance.  If it gets none *)
(* it returns NULL, and _init() then calls lib_i2c_deinit() with that: the *)
(* close() of a number that is not open does nothing.                      *)
LibMalloc ==
  LET m == mm_malloc(heap, ChunkSize(SizeofInstance))
  IN /\ at = "init"
     /\ heap' = m.h
     /\ inst' = m.a
     /\ at' = IF m.a = NULL THEN "loop" ELSE "open"
     /\ UNCHANGED <<blocks, pc, raced, word, files>>

(* What open() returns is stored into the instance, an error too.  A value *)
(* that lies outside of the block is the size in the header behind it; -1  *)
(* stands for the largest mmsize_t, to which it is equal modulo 2^32.      *)
LibOpen ==
  \E fd \in (Fds \ files) \union {-1} :
    /\ at = "open"
    /\ files' = files \union ({fd} \ {-1})
    /\ IF InBlock(inst)
         THEN word' = fd /\ heap' = heap
         ELSE word' = word /\ heap' = [heap EXCEPT !.mem[FdAddress(inst)].size = fd]
    /\ at' = IF fd < 0 THEN "free" ELSE "loop"
    /\ UNCHANGED <<blocks, pc, raced, inst>>

(* The open() failed: the instance is freed, and _init() passes NULL to    *)
(* lib_i2c_deinit() as above.                                              *)
LibFree ==
  /\ at = "free"
  /\ heap' = mm_free(heap, inst)
  /\ inst' = NULL
  /\ at' = "loop"
  /\ UNCHANGED <<blocks, pc, raced, word, files>>

(* drv_imu_deinit() closes the descriptor and frees the instance. *)
Deinit ==
  /\ at = "loop"
  /\ inst # NULL
  /\ files' = files \ {Fd}
  /\ heap' = mm_free(heap, inst)
  /\ at' = "down"
  /\ UNCHANGED <<blocks, pc, raced, inst, word>>

ImuInit ==
  /\ Init
  /\ inst = NULL /\ word = VectorEntry /\ files = {} /\ at = "init"

ImuNext ==
  \/ LibMalloc \/ LibOpen \/ LibFree \/ Deinit
  \/ Next /\ UNCHANGED imuvars

ImuSpec == ImuInit /\ [][ImuNext]_<<vars, imuvars>>
=============================================================================
