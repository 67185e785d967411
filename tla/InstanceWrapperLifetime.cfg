\* A wrapper made by instance_init for an object that C code keeps.
CONSTANTS
    Instances = {i1, i2}
    Wrappers = {w1, w2}
    Threads = {t1}
    None = None
    Levels = {1}
    Kinds = {"plain", "floating", "toplevel"}
    Env = {}
    MaxDepth = 2
    MaxCRefs = 1
SPECIFICATION Spec
PROPERTY AssociatedWhileAlive
